---- MODULE Spec2Model ----
(***************************************************************************)
(* AutoOrganizer: the planning pipeline (Planner.build_plan), the          *)
(* execution engine (FileMover.execute_plan) and the rollback replay       *)
(* (RollbackManager.load_entries / restore), over an abstract filesystem.  *)
(*                                                                         *)
(* A path is a record [root, sub, chain, tmp]:                             *)
(*   root  "src" or "dst"  (a source directory / the destination root)     *)
(*   sub   the source directory's number, or the category sub-directory    *)
(*   chain the " (N)" suffixes appended to the file's stem, in order:      *)
(*         <<>> is note.txt, <<1>> is "note (1).txt",                      *)
(*         <<1, 2>> is "note (1) (2).txt"                                  *)
(*   tmp   TRUE for the ".ao_tmp" sibling of the path                      *)
(* File content is a number: source file i holds i, a file that somebody   *)
(* else put into the destination holds 0, a damaged copy of c holds -c.    *)
(***************************************************************************)
EXTENDS Integers, Sequences, FiniteSets, TLC

\* ------------------------------------------------------------------ bounds
MaxItems == 3
MaxExternal == 1

Categories == {1, 2}
Strategies == {"rename", "skip", "overwrite"}

\* st_dev of the destination root and of everything below it
DestDevice == 0

\* ------------------------------------------------------------------- paths
SrcPath(i) == [root |-> "src", sub |-> i, chain |-> <<>>, tmp |-> FALSE]

DstPath(c, ch) == [root |-> "dst", sub |-> c, chain |-> ch, tmp |-> FALSE]

\* Path.parent
Parent(p) == [root |-> p.root, sub |-> p.sub]

\* destination.with_name(f"{destination.stem} ({suffix}){destination.suffix}")
WithName(destination, suffix) == [destination EXCEPT !.chain = Append(@, suffix)]

\* destination.with_suffix(destination.suffix + ".ao_tmp")
TempPath(destination) == [destination EXCEPT !.tmp = TRUE]

\* Path.exists() on a filesystem f (a function from the existing paths to content)
Exists(f, p) == p \in DOMAIN f

\* os.replace / unlink on the filesystem function
Remove(f, p) == [q \in (DOMAIN f) \ {p} |-> f[q]]

Put(f, p, c) == [q \in (DOMAIN f) \cup {p} |-> IF q = p THEN c ELSE f[q]]

\* hashlib.sha256 of a content: collision-free on the contents of the model
Sha256(c) == <<"sha256", c>>

\* what a corrupting destination filesystem leaves in the temporary copy
Damaged(c) == 0 - c

VARIABLES
    candidates,       \* the scan result after the filter: one FilterDecision per candidate
    plannerStrategy,  \* Planner.conflict_strategy
    moverStrategy,    \* FileMover.conflict_strategy
    devOf,            \* st_dev of each source directory
    fs,               \* the files: path -> content
    dirs,             \* the directories that exist
    pc,               \* "start", "planned", "exec", "done", "raised", "rollback_raised", "rollback_done"
    origin,           \* "planner": the items are Plan.items; "caller": built by the caller
    plan,             \* the Plan returned by build_plan
    items,            \* plan_items of execute_plan (hash_digest is mutated in place)
    idx,              \* position of the for loop of execute_plan
    rollback_steps,
    processed,
    succeeded,
    skipped,
    failed,
    bytes_processed,
    errors,
    rollbackFile,     \* the JSON value stored at rollback_path
    rollbackScript,   \* the lines of the companion .sh file
    restored,         \* the list RollbackManager.restore returned
    ev,               \* what the last executed item did (observation only)
    attempts,         \* how many times each item entered the loop body (observation only)
    preFs,            \* the files when execute_plan was called (observation only)
    extBudget,        \* how many more times another process touches the tree
    step,             \* position inside _execute_item when a copy item is followed call by call
    local,            \* the locals of that _execute_item call
    now,              \* the clock: time.monotonic() and time.time()
    config,           \* debounce_interval, flush_interval (batch_interval), blacklist_patterns
    pending,          \* EventQueue._pending, in insertion order
    emitted,          \* the batches the callback received
    added,            \* how many events were made so far (observation only)
    lastCall,         \* the last call on the EventQueue (observation only)
    queue,            \* RealtimeWatcher._queue
    stop_event,       \* RealtimeWatcher._stop_event
    worker,           \* position of the worker thread in _run
    caller,           \* position of the thread that calls start() and stop()
    beforeStop,       \* ids of the events published before stop() was called (observation only)
    outcomes,         \* what the callback did with each batch of emitted (observation only)
    backend,          \* RealtimeWatcher._backend: "none", "running" or "halted"
    sysfilter,        \* the SystemFilter
    lastDecision,     \* the FilterDecision of the last evaluate
    filtered,         \* the last filter_candidates: its input and what it yielded
    engine,           \* the ClassificationEngine: its rules, its default category, the hash seed
    extension_cache,  \* ClassificationEngine._extension_cache, oldest entry first
    lastResult,       \* the candidate and the ClassificationResult of the last classify
    evicted,          \* whether the cache ever dropped an entry (observation only)
    sourceFiles,      \* the FileCandidate the scanner builds for the file of each source directory
    replan,           \* the Plan of a second build_plan on the same Planner
    watched,          \* the files below the watched root: st_mtime and st_size of each
    snapshot,         \* _PollingBackend._snapshot
    polls,            \* how many times the polling thread ran _scan
    changes,          \* how many times the watched files were changed
    orphans,          \* started backends the watcher no longer refers to
    calls,            \* how many start() and stop() calls were made
    listing,          \* the destination directory of mover.FileMover: what each name holds
    inbox,            \* the files that are still waiting to be moved by mover.FileMover
    lastMove          \* the last call of mover.FileMover.move (observation only)

vars == <<candidates, plannerStrategy, moverStrategy, devOf, fs, dirs, pc, origin, plan,
          items, idx, rollback_steps, processed, succeeded, skipped, failed,
          bytes_processed, errors, rollbackFile, rollbackScript, restored, ev, attempts, preFs, extBudget,
          step, local, now, config, pending, emitted, added, lastCall, queue, stop_event,
          worker, caller, beforeStop, outcomes, backend, sysfilter,
          lastDecision, filtered, engine, extension_cache, lastResult, evicted,
          sourceFiles, replan, watched, snapshot, polls, changes, orphans, calls,
          listing, inbox, lastMove>>

\* the variables of the event queue and of the watcher's threads
queueVars == <<now, config, pending, emitted, added, lastCall>>

threadVars == <<queue, stop_event, worker, caller, beforeStop, outcomes, backend>>

\* the variables of the filter
filterVars == <<sysfilter, lastDecision, filtered>>

\* the variables of the classifier
classifierVars == <<engine, extension_cache, lastResult, evicted>>

\* the variables of a Planner that runs its own scanner, filter and classifier
plannerVars == <<sourceFiles, replan>>

\* the variables of the polling backend and of the calls of start() and stop()
backendVars == <<watched, snapshot, polls, changes, orphans, calls>>

\* the variables of mover.FileMover
duplicateVars == <<listing, inbox, lastMove>>

toolVars == <<filterVars, classifierVars, plannerVars, backendVars, duplicateVars>>

\* what the runs of whole plans leave alone
aside == <<step, local, queueVars, threadVars, toolVars>>

\* ----------------------------------------------------------------- Planner
\* Planner._resolve_destination: destination_root / sub_dir(category) / name
ResolveDestination(candidate, category) == DstPath(category, candidate.path.chain)

\* the while loop of Planner._handle_conflict (rename strategy)
RECURSIVE PlannerRenameLoop(_, _, _, _)
PlannerRenameLoop(f, destination, candidate, suffix) ==
    IF ~Exists(f, candidate) THEN candidate
    ELSE PlannerRenameLoop(f, destination, WithName(destination, suffix), suffix + 1)

\* Planner._handle_conflict: <<final destination, conflict, skipped due to conflict>>
HandleConflict(f, destination, strategy) ==
    IF ~Exists(f, destination) THEN <<destination, FALSE, FALSE>>
    ELSE IF strategy = "overwrite" THEN <<destination, TRUE, FALSE>>
    ELSE IF strategy = "skip" THEN <<destination, TRUE, TRUE>>
    ELSE <<PlannerRenameLoop(f, destination, destination, 1), TRUE, FALSE>>

\* Planner._same_volume: the source's device against the device of the nearest
\* existing ancestor of the destination; a vanished source gives False
SameVolume(f, dv, source, destination) ==
    IF ~Exists(f, source) THEN FALSE
    ELSE dv[source.sub] = DestDevice

\* the body of the for loop of build_plan for one decision, folded over the decisions
RECURSIVE PlanLoop(_, _, _, _, _, _)
PlanLoop(f, dv, strategy, decisions, k, acc) ==
    IF k > Len(decisions) THEN acc
    ELSE LET decision == decisions[k]
             destination == ResolveDestination(decision, decision.category)
             hc == HandleConflict(f, destination, strategy)
             same_volume == SameVolume(f, dv, decision.path, hc[1])
             plan_item == [source |-> decision.path,
                           destination |-> hc[1],
                           operation |-> IF same_volume THEN "rename" ELSE "copy",
                           same_volume |-> same_volume,
                           size |-> decision.size,
                           conflict |-> hc[2],
                           hash_digest |-> <<>>,
                           category |-> decision.category,
                           flags |-> decision.flags]
         IN IF decision.should_skip
            THEN PlanLoop(f, dv, strategy, decisions, k + 1,
                          [acc EXCEPT !.skipped = Append(@, [path |-> decision.path,
                                                             reason |-> decision.reason,
                                                             flags |-> decision.flags])])
            ELSE IF hc[3]
            THEN PlanLoop(f, dv, strategy, decisions, k + 1,
                          [acc EXCEPT !.skipped = Append(@, [path |-> decision.path,
                                                             reason |-> "conflict",
                                                             flags |-> {"conflict"}])])
            ELSE PlanLoop(f, dv, strategy, decisions, k + 1,
                          [acc EXCEPT !.items = Append(@, plan_item),
                                      !.total_bytes = @ + decision.size,
                                      !.categories[decision.category] = @ + 1])

\* Planner.build_plan: the Plan with its summary
BuildPlanOf(f, dv, strategy, decisions) ==
    LET acc == PlanLoop(f, dv, strategy, decisions, 1,
                        [items |-> <<>>, skipped |-> <<>>, total_bytes |-> 0,
                         categories |-> [c \in Categories |-> 0]])
    IN [items |-> acc.items,
        skipped |-> acc.skipped,
        summary |-> [total_candidates |-> Len(decisions),
                     planned |-> Len(acc.items),
                     skipped |-> Len(acc.skipped),
                     total_bytes |-> acc.total_bytes,
                     categories |-> acc.categories]]

\* ------------------------------------------------------------------- Mover
\* FileMover._next_available: the while loop
RECURSIVE NextAvailableLoop(_, _, _, _)
NextAvailableLoop(f, destination, candidate, suffix) ==
    IF ~Exists(f, candidate) THEN candidate
    ELSE NextAvailableLoop(f, destination, WithName(destination, suffix), suffix + 1)

\* a mover that trusts the planned destination instead of probing for a free name
NextAvailable_NoProbe(f, destination) == destination

NextAvailable(f, destination) == NextAvailableLoop(f, destination, destination, 1)

\* a mover whose skip strategy does not raise on an occupied destination
ResolveAtExecution_SkipProceeds(f, destination, strategy) ==
    IF ~Exists(f, destination) THEN [exc |-> "none", destination |-> destination]
    ELSE IF strategy = "rename"
    THEN [exc |-> "none", destination |-> NextAvailable(f, destination)]
    ELSE [exc |-> "none", destination |-> destination]

\* the destination.exists() block of _execute_item:
\* the exception it raises ("none" when it goes on) and the destination it goes on with
ResolveAtExecution(f, destination, strategy) ==
    IF ~Exists(f, destination) THEN [exc |-> "none", destination |-> destination]
    ELSE IF strategy = "skip" THEN [exc |-> "ConflictError", destination |-> destination]
    ELSE IF strategy = "rename"
    THEN [exc |-> "none", destination |-> NextAvailable(f, destination)]
    ELSE [exc |-> "none", destination |-> destination]

\* st_dev of a path: a source directory's device, or the destination's
DeviceOf(dv, p) == IF p.root = "src" THEN dv[p.sub] ELSE DestDevice

\* os.replace(source, destination): fails on a missing source and across devices
OsReplace(f, dv, source, destination) ==
    IF ~Exists(f, source) THEN [exc |-> "FileNotFoundError", fs |-> f]
    ELSE IF DeviceOf(dv, source) # DeviceOf(dv, destination)
    THEN [exc |-> "OSError", fs |-> f]
    ELSE [exc |-> "none", fs |-> Put(Remove(f, source), destination, f[source])]

\* an _atomic_rename that moves as shutil.move does: across devices it copies the
\* file to the destination and unlinks the source instead of raising
AtomicRename_CopiesAcrossDevices(f, d, dv, source, destination) ==
    LET r == OsReplace(f, dv, source, destination)
    IN IF r.exc = "OSError"
       THEN [exc |-> "none", fs |-> Put(Remove(f, source), destination, f[source]),
             dirs |-> d \cup {Parent(destination)}]
       ELSE [exc |-> r.exc, fs |-> r.fs, dirs |-> d \cup {Parent(destination)}]

\* FileMover._atomic_rename: mkdir of the parent, then os.replace
AtomicRename(f, d, dv, source, destination) ==
    LET r == OsReplace(f, dv, source, destination)
    IN [exc |-> r.exc, fs |-> r.fs, dirs |-> d \cup {Parent(destination)}]

\* a verified copy that forgets to unlink the temporary file on a digest mismatch
CopyWithVerification_LeavesTemp(f, dv, source, destination, corrupt) ==
    LET temp_destination == TempPath(destination) IN
    IF ~Exists(f, source)
    THEN [exc |-> "FileNotFoundError", fs |-> f, digest |-> <<>>, mismatch |-> FALSE]
    ELSE LET written == IF corrupt THEN Damaged(f[source]) ELSE f[source]
             f1 == Put(f, temp_destination, written)
             source_digest == Sha256(f[source])
             dest_digest == Sha256(f1[temp_destination])
         IN IF source_digest # dest_digest
            THEN [exc |-> "VerificationError", fs |-> f1,
                  digest |-> <<>>, mismatch |-> TRUE]
            ELSE [exc |-> OsReplace(f1, dv, temp_destination, destination).exc,
                  fs |-> OsReplace(f1, dv, temp_destination, destination).fs,
                  digest |-> source_digest, mismatch |-> FALSE]

\* FileMover._copy_with_verification. corrupt: the destination filesystem damages
\* what is written to the temporary file
CopyWithVerification(f, dv, source, destination, corrupt) ==
    LET temp_destination == TempPath(destination) IN
    IF ~Exists(f, source)
    THEN [exc |-> "FileNotFoundError", fs |-> f, digest |-> <<>>, mismatch |-> FALSE]
    ELSE LET written == IF corrupt THEN Damaged(f[source]) ELSE f[source]
             f1 == Put(f, temp_destination, written)
             source_digest == Sha256(f[source])
             dest_digest == Sha256(f1[temp_destination])
         IN IF source_digest # dest_digest
            THEN [exc |-> "VerificationError", fs |-> Remove(f1, temp_destination),
                  digest |-> <<>>, mismatch |-> TRUE]
            ELSE [exc |-> OsReplace(f1, dv, temp_destination, destination).exc,
                  fs |-> OsReplace(f1, dv, temp_destination, destination).fs,
                  digest |-> source_digest, mismatch |-> FALSE]

\* FileMover._delete_source: source.unlink(); denied: the unlink is refused
DeleteSource(f, source, denied) ==
    IF denied THEN [exc |-> "PermissionError", fs |-> f]
    ELSE IF ~Exists(f, source) THEN [exc |-> "FileNotFoundError", fs |-> f]
    ELSE [exc |-> "none", fs |-> Remove(f, source)]

\* FileMover._execute_item. fault: "none", "corrupt" (the copy is damaged) or
\* "denied" (the source cannot be unlinked)
ExecuteItem(f, d, dv, item, strategy, fault) ==
    LET d1 == d \cup {Parent(item.destination)}
        occupied == Exists(f, item.destination)
        res == ResolveAtExecution(f, item.destination, strategy)
        actual_destination == res.destination
        none == [exc |-> "none", fs |-> f, dirs |-> d1, digest |-> item.hash_digest,
                 step |-> <<>>, occupied |-> occupied, mismatch |-> FALSE]
    IN IF res.exc # "none" THEN [none EXCEPT !.exc = res.exc]
       ELSE IF item.operation = "rename"
       THEN LET r == AtomicRename(f, d1, dv, item.source, actual_destination)
            IN [none EXCEPT !.exc = r.exc, !.fs = r.fs, !.dirs = r.dirs,
                            !.step = IF r.exc = "none"
                                     THEN <<[source |-> actual_destination,
                                             destination |-> item.source,
                                             operation |-> "rename"]>>
                                     ELSE <<>>]
       ELSE IF item.operation = "copy"
       THEN LET c == CopyWithVerification(f, dv, item.source, actual_destination,
                                          fault = "corrupt")
                u == DeleteSource(c.fs, item.source, fault = "denied")
            IN IF c.exc # "none"
               THEN [none EXCEPT !.exc = c.exc, !.fs = c.fs, !.mismatch = c.mismatch]
               ELSE [none EXCEPT !.exc = u.exc, !.fs = u.fs, !.digest = c.digest,
                                 !.step = IF u.exc = "none"
                                          THEN <<[source |-> actual_destination,
                                                  destination |-> item.source,
                                                  operation |-> "restore"]>>
                                          ELSE <<>>]
       ELSE [none EXCEPT !.exc = "ValueError"]

\* isinstance(exc, cls) for the exception classes the mover meets
IsInstance(exc, cls) ==
    \/ cls = "Exception"
    \/ cls = exc
    \/ cls = "RuntimeError" /\ exc \in {"ConflictError", "VerificationError"}
    \/ cls = "OSError" /\ exc \in {"FileNotFoundError", "PermissionError"}

\* an execute_plan whose second clause is "except OSError"
HandlerOf_OnlyOSError(exc) ==
    IF IsInstance(exc, "ConflictError") THEN "skipped"
    ELSE IF IsInstance(exc, "OSError") THEN "failed"
    ELSE "propagate"

\* an execute_plan that swallows a ConflictError without counting the item
HandlerOf_ConflictDropped(exc) ==
    IF IsInstance(exc, "ConflictError") THEN "dropped"
    ELSE IF IsInstance(exc, "Exception") THEN "failed"
    ELSE "propagate"

\* the except clauses of execute_plan, in order
HandlerOf(exc) ==
    IF IsInstance(exc, "ConflictError") THEN "skipped"
    ELSE IF IsInstance(exc, "Exception") THEN "failed"
    ELSE "propagate"

\* the first test of the loop body: the conflict flag under the skip strategy
SkipsOnFlag(item, strategy) == "conflict" \in item.flags /\ strategy = "skip"

\* a _write_rollback that writes the step's fields under the wrong keys
RollbackJson_Swapped(steps) ==
    [kind |-> "list",
     val |-> [k \in 1 .. Len(steps) |-> [operation |-> steps[k].operation,
                                         from |-> steps[k].destination,
                                         to |-> steps[k].source]]]

\* FileMover._write_rollback: the JSON list and the lines of the shell script
RollbackJson(steps) ==
    [kind |-> "list",
     val |-> [k \in 1 .. Len(steps) |-> [operation |-> steps[k].operation,
                                         from |-> steps[k].source,
                                         to |-> steps[k].destination]]]

RollbackScriptOf(steps) ==
    <<<<"#!/bin/sh">>, <<"set -euo pipefail">>>> \o
    [k \in 1 .. Len(steps) |->
        IF steps[k].operation = "rename" THEN <<"mv", steps[k].source, steps[k].destination>>
        ELSE <<"cp -p", steps[k].source, steps[k].destination>>]

\* --------------------------------------------------------- RollbackManager
\* RollbackManager.load_entries on the JSON value of the rollback file: payload.get
\* exists on a JSON object only, and every raw entry is read by its three keys
LoadEntries(file) ==
    IF file.kind = "absent" THEN [exc |-> "FileNotFoundError", entries |-> <<>>]
    ELSE IF file.kind # "object" THEN [exc |-> "AttributeError", entries |-> <<>>]
    ELSE IF \E k \in 1 .. Len(file.val) :
                {"original_path", "backup_path", "sha256"} \ DOMAIN file.val[k] # {}
    THEN [exc |-> "KeyError", entries |-> <<>>]
    ELSE [exc |-> "none",
          entries |-> [k \in 1 .. Len(file.val) |->
                          [original_path |-> file.val[k].original_path,
                           backup_path |-> file.val[k].backup_path,
                           sha256 |-> file.val[k].sha256]]]

\* a _verify_hash that trusts every backup
VerifyHash_Trusting(f, path, expected) == TRUE

\* _verify_hash
VerifyHash(f, path, expected) == Sha256(f[path]) = expected

\* RollbackManager.restore, folded over the entries
RECURSIVE RestoreLoop(_, _, _, _)
RestoreLoop(entries, k, dry_run, acc) ==
    IF k > Len(entries) THEN acc
    ELSE LET entry == entries[k] IN
         IF ~Exists(acc.fs, entry.backup_path)
         THEN RestoreLoop(entries, k + 1, dry_run, acc)
         ELSE IF ~VerifyHash(acc.fs, entry.backup_path, entry.sha256)
         THEN RestoreLoop(entries, k + 1, dry_run, acc)
         ELSE RestoreLoop(entries, k + 1, dry_run,
                  [fs |-> IF dry_run THEN acc.fs
                          ELSE Put(Remove(acc.fs, entry.backup_path), entry.original_path,
                                   acc.fs[entry.backup_path]),
                   dirs |-> acc.dirs \cup {Parent(entry.original_path)},
                   restored |-> Append(acc.restored, entry.original_path)])

Restore(f, d, entries, dry_run) ==
    RestoreLoop(entries, 1, dry_run, [fs |-> f, dirs |-> d, restored |-> <<>>])

\* ------------------------------------------------------------ SystemFilter
\* A string is the sequence of its characters; a character outside ASCII is written
\* by its code point. A Path is the sequence of its parts, the root "/" first.
MaxBatch == 2

UpperCase == <<"A", "B", "C", "D", "E", "F", "G", "H", "I", "J", "K", "L", "M", "N", "O", "P", "Q", "R", "S", "T", "U", "V", "W", "X", "Y", "Z">>
LowerCase == <<"a", "b", "c", "d", "e", "f", "g", "h", "i", "j", "k", "l", "m", "n", "o", "p", "q", "r", "s", "t", "u", "v", "w", "x", "y", "z">>

\* the characters that take three bytes in UTF-8
ThreeBytes == {"U+5BC6", "U+78BC", "U+6A5F"}

\* str.lower(), character by character
Lower(s) ==
    [i \in 1 .. Len(s) |->
        IF \E k \in 1 .. Len(UpperCase) : UpperCase[k] = s[i]
        THEN LowerCase[CHOOSE k \in 1 .. Len(UpperCase) : UpperCase[k] = s[i]]
        ELSE s[i]]

\* str.startswith, str.endswith and the operator "in" on two strings
StartsWith(s, prefix) ==
    Len(prefix) <= Len(s) /\ SubSeq(s, 1, Len(prefix)) = prefix

EndsWith(s, suffix) ==
    Len(suffix) <= Len(s) /\ SubSeq(s, Len(s) - Len(suffix) + 1, Len(s)) = suffix

Contains(s, sub) ==
    \E i \in 1 .. Len(s) + 1 :
        i + Len(sub) - 1 <= Len(s) /\ SubSeq(s, i, i + Len(sub) - 1) = sub

\* len(s.encode("utf-8"))
Utf8Len(s) == Len(s) + 2 * Cardinality({i \in 1 .. Len(s) : s[i] \in ThreeBytes})

\* Path.name and str(path) of an absolute path
NameOf(parts) == IF Len(parts) > 1 THEN parts[Len(parts)] ELSE <<>>

RECURSIVE JoinParts(_, _)
JoinParts(parts, k) ==
    IF k > Len(parts) THEN <<>>
    ELSE (IF k > 2 THEN <<"/">> ELSE <<>>) \o parts[k] \o JoinParts(parts, k + 1)

StrOf(parts) == JoinParts(parts, 1)

\* the module's constants
DEFAULT_EXCLUDES ==
    {<<".", "D", "S", "_", "S", "t", "o", "r", "e">>, <<"T", "h", "u", "m", "b", "s", ".", "d", "b">>, <<"_", "_", "M", "A", "C", "O", "S", "X">>, <<"_", "_", "p", "y", "c", "a", "c", "h", "e", "_", "_">>, <<".", "g", "i", "t">>, <<".", "s", "v", "n">>,
     <<"n", "o", "d", "e", "_", "m", "o", "d", "u", "l", "e", "s">>}

TEMP_SUFFIXES == {<<".", "t", "m", "p">>, <<".", "t", "e", "m", "p">>, <<".", "p", "a", "r", "t">>, <<".", "p", "a", "r", "t", "i", "a", "l">>}
TEMP_PREFIXES == {<<"~", "$">>, <<".", "_">>}

CLOUD_PLACEHOLDER_SUFFIXES == {<<".", "i", "c", "l", "o", "u", "d">>, <<".", "i", "c", "l", "o", "u", "d", "~">>, <<".", "o", "n", "e", "p", "k", "g">>, <<".", "o", "n", "e">>}
CLOUD_PLACEHOLDER_KEYWORDS == {<<"o", "n", "e", "d", "r", "i", "v", "e">>, <<"d", "r", "o", "p", "b", "o", "x">>, <<"i", "c", "l", "o", "u", "d">>}

SENSITIVE_KEYWORDS ==
    {<<"p", "a", "s", "s", "w", "o", "r", "d">>, <<"U+5BC6", "U+78BC">>, <<"p", "r", "i", "v", "a", "t", "e">>, <<"U+6A5F", "U+5BC6">>,
     <<"c", "o", "n", "f", "i", "d", "e", "n", "t", "i", "a", "l">>, <<"s", "e", "c", "r", "e", "t">>}

DEVELOPER_FOLDERS == {<<"b", "u", "i", "l", "d">>, <<"d", "i", "s", "t">>, <<"v", "e", "n", "v">>, <<".", "v", "e", "n", "v">>, <<"e", "n", "v">>, <<".", "i", "d", "e", "a">>}

\* the default of max_name_length
DefaultMaxNameLength == 255

\* SystemFilter(whitelist=..., sensitive_keywords=..., max_name_length=...,
\* skip_hidden=..., skip_empty=..., sensitive_action=...); whitelist_arg keeps the
\* entries as they were given
SystemFilter(whitelist, sensitive_keywords, max_name_length, skip_hidden, skip_empty, sensitive_action) ==
    [whitelist |-> {Lower(item) : item \in whitelist},
     whitelist_arg |-> whitelist,
     sensitive_keywords |-> {Lower(keyword) : keyword \in sensitive_keywords}
                                \cup SENSITIVE_KEYWORDS,
     max_name_length |-> max_name_length,
     skip_hidden |-> skip_hidden,
     skip_empty |-> skip_empty,
     sensitive_action |-> sensitive_action]

\* SystemFilter()
DefaultFilter == SystemFilter({}, {}, DefaultMaxNameLength, TRUE, TRUE, "skip")

\* FileCandidate(path, size, modified_at) with its default tags
FileCandidate(path, size) == [path |-> path, size |-> size, tags |-> {}]

\* the value None of reason
NoReason == "None"

FilterDecision(candidate, should_skip, reason, flags) ==
    [candidate |-> candidate, should_skip |-> should_skip, reason |-> reason,
     flags |-> flags]

IsSystemFile(path) ==
    \/ NameOf(path) \in DEFAULT_EXCLUDES
    \/ \E k \in 1 .. Len(path) : path[k] \in DEFAULT_EXCLUDES

IsHidden(path) ==
    \E k \in 1 .. Len(path) :
        StartsWith(path[k], <<".">>) /\ path[k] \notin {<<".", ".">>, <<".">>}

IsTemporary(path) ==
    \/ \E prefix \in TEMP_PREFIXES : StartsWith(NameOf(path), prefix)
    \/ \E suffix \in TEMP_SUFFIXES : EndsWith(NameOf(path), suffix)
    \/ EndsWith(NameOf(path), <<"~">>)

IsDeveloperPath(path) ==
    \E k \in 1 .. Len(path) : Lower(path[k]) \in DEVELOPER_FOLDERS

IsNameTooLong(self, path) == Utf8Len(NameOf(path)) > self.max_name_length

ContainsSensitiveKeyword(self, path) ==
    \E keyword \in self.sensitive_keywords : Contains(Lower(NameOf(path)), keyword)

IsCloudPlaceholder(path, size) ==
    \/ \E suffix \in CLOUD_PLACEHOLDER_SUFFIXES : EndsWith(Lower(NameOf(path)), suffix)
    \/ /\ size = 0
       /\ \E keyword \in CLOUD_PLACEHOLDER_KEYWORDS : Contains(Lower(StrOf(path)), keyword)

\* an _is_whitelisted that does not lower the path
IsWhitelisted_CaseSensitive(self, path) ==
    /\ self.whitelist # {}
    /\ \E token \in self.whitelist : Contains(StrOf(path), token)

IsWhitelisted(self, path) ==
    /\ self.whitelist # {}
    /\ \E token \in self.whitelist : Contains(Lower(StrOf(path)), token)

\* the list checks of evaluate: (condition, reason_token, flag)
Checks(self, candidate) ==
    <<[condition |-> IsCloudPlaceholder(candidate.path, candidate.size),
       reason_token |-> "cloud_placeholder", flag |-> "cloud-placeholder"],
      [condition |-> self.skip_hidden /\ IsHidden(candidate.path),
       reason_token |-> "hidden", flag |-> "hidden"],
      [condition |-> IsSystemFile(candidate.path),
       reason_token |-> "system", flag |-> "system"],
      [condition |-> IsDeveloperPath(candidate.path),
       reason_token |-> "developer", flag |-> "developer"],
      [condition |-> IsTemporary(candidate.path),
       reason_token |-> "temporary", flag |-> "temporary"],
      [condition |-> IsNameTooLong(self, candidate.path),
       reason_token |-> "name_too_long", flag |-> "long-name"],
      [condition |-> self.skip_empty /\ candidate.size = 0,
       reason_token |-> "empty_file", flag |-> "empty"]>>

\* a loop over checks in which a later match replaces the reason
RECURSIVE CheckLoop_LastReason(_, _, _)
CheckLoop_LastReason(checks, k, acc) ==
    IF k > Len(checks) THEN acc
    ELSE IF checks[k].condition
    THEN CheckLoop_LastReason(checks, k + 1,
                   [flags |-> acc.flags \cup {checks[k].flag},
                    reason |-> checks[k].reason_token,
                    should_skip |-> TRUE])
    ELSE CheckLoop_LastReason(checks, k + 1, acc)

\* the loop of evaluate over checks, from entry k on
RECURSIVE CheckLoop(_, _, _)
CheckLoop(checks, k, acc) ==
    IF k > Len(checks) THEN acc
    ELSE IF checks[k].condition
    THEN CheckLoop(checks, k + 1,
                   [flags |-> acc.flags \cup {checks[k].flag},
                    reason |-> IF acc.reason = NoReason THEN checks[k].reason_token
                               ELSE acc.reason,
                    should_skip |-> TRUE])
    ELSE CheckLoop(checks, k + 1, acc)

\* SystemFilter.evaluate
Evaluate(self, candidate) ==
    IF IsWhitelisted(self, candidate.path)
    THEN FilterDecision(candidate, FALSE, NoReason, {"whitelisted"})
    ELSE LET looped == CheckLoop(Checks(self, candidate), 1,
                                 [flags |-> {}, reason |-> NoReason, should_skip |-> FALSE])
             sensitive_flag == ContainsSensitiveKeyword(self, candidate.path)
             skips == sensitive_flag /\ self.sensitive_action = "skip"
         IN FilterDecision(candidate,
                           looped.should_skip \/ skips,
                           IF skips /\ looped.reason = NoReason THEN "sensitive_keyword"
                           ELSE looped.reason,
                           looped.flags \cup (IF sensitive_flag THEN {"sensitive"} ELSE {}))

\* SystemFilter.filter_candidates, as the list of what it yields
RECURSIVE FilterCandidatesOf(_, _, _)
FilterCandidatesOf(self, batch, k) ==
    IF k > Len(batch) THEN <<>>
    ELSE LET d == Evaluate(self, batch[k])
         IN (IF ~d.should_skip THEN <<d.candidate>> ELSE <<>>)
                \o FilterCandidatesOf(self, batch, k + 1)

\* a file name of 256 bytes
LongName == [i \in 1 .. DefaultMaxNameLength + 1 |-> "a"]

\* the paths of the candidates that are evaluated
FilterPaths ==
    {<<<<"/">>, <<"t", "m", "p">>, <<".", "D", "S", "_", "S", "t", "o", "r", "e">>>>,
     <<<<"/">>, <<"t", "m", "p">>, <<"T", "h", "u", "m", "b", "s", ".", "d", "b">>>>,
     <<<<"/">>, <<"h", "o", "m", "e">>, <<"~", "$", "d", "o", "c", ".", "d", "o", "c", "x">>>>,
     <<<<"/">>, <<"w", "o", "r", "k">>, <<"B", "u", "i", "l", "d">>, <<"a", ".", "t", "x", "t">>>>,
     <<<<"/">>, <<"d", "o", "c", "s">>, <<"p", "a", "s", "s", "w", "o", "r", "d", ".", "t", "x", "t">>>>,
     <<<<"/">>, <<"d", "a", "t", "a">>, <<"U+6211", "U+7684", "U+5BC6", "U+78BC", ".", "z", "i", "p">>>>,
     <<<<"/">>, <<"n", "o", "r", "m", "a", "l">>, <<"d", "o", "c", "u", "m", "e", "n", "t", ".", "t", "x", "t">>>>,
     <<<<"/">>, <<"D", "r", "o", "p", "b", "o", "x">>, <<"x", ".", "t", "x", "t">>>>,
     <<<<"/">>, <<"a">>, <<"f", "i", "l", "e", ".", "i", "C", "l", "o", "u", "d">>>>,
     <<<<"/">>, <<"x">>, <<".", "S", "e", "c", "r", "e", "t", ".", "t", "m", "p">>>>,
     <<<<"/">>, <<"S", "a", "f", "e">>, <<".", "g", "i", "t">>, <<"P", "r", "i", "v", "a", "t", "e", ".", "p", "a", "r", "t">>>>,
     <<<<"/">>, <<"s", "a", "f", "e">>, <<".", "D", "S", "_", "S", "t", "o", "r", "e">>>>,
     <<<<"/">>, <<"n">>, LongName>>,
     <<<<"/">>, <<"n">>, <<"U+6A5F", "U+5BC6", "U+6A5F">>>>}

FilterInputs == {FileCandidate(path, size) : path \in FilterPaths, size \in {0, 1024}}

\* the candidates passed to filter_candidates
BatchInputs ==
    {FileCandidate(<<<<"/">>, <<"d", "o", "c", "s">>, <<"p", "a", "s", "s", "w", "o", "r", "d", ".", "t", "x", "t">>>>, 1024),
     FileCandidate(<<<<"/">>, <<"n", "o", "r", "m", "a", "l">>, <<"d", "o", "c", "u", "m", "e", "n", "t", ".", "t", "x", "t">>>>, 1024),
     FileCandidate(<<<<"/">>, <<"t", "m", "p">>, <<".", "D", "S", "_", "S", "t", "o", "r", "e">>>>, 1024),
     FileCandidate(<<<<"/">>, <<"s", "a", "f", "e">>, <<".", "D", "S", "_", "S", "t", "o", "r", "e">>>>, 1024)}

FilterBatches == UNION {[1 .. n -> BatchInputs] : n \in 0 .. MaxBatch}

\* the filters that are constructed
FilterConfigs ==
    {SystemFilter(whitelist, sensitive_keywords, max_name_length, skip_hidden, skip_empty,
                  sensitive_action) :
        whitelist \in {{}, {<<"/", "s", "a", "f", "e", "/">>}, {<<"/", "S", "a", "f", "e", "/">>, <<"n", "o", "t", "h", "i", "n", "g">>}},
        sensitive_keywords \in {{}, {<<"D", "o", "c">>}},
        max_name_length \in {DefaultMaxNameLength, 8},
        skip_hidden \in BOOLEAN,
        skip_empty \in BOOLEAN,
        sensitive_action \in {"skip", "flag"}}

NoCandidate == FileCandidate(<<>>, 0)

NoDecision == FilterDecision(NoCandidate, FALSE, NoReason, {})

NoBatch == [input |-> <<>>, output |-> <<>>, called |-> FALSE]

\* ---------------------------------------------------- ClassificationEngine
\* self._cache_limit, scaled down from 1000 so that the cache overflows after a few
\* classify calls
CacheLimit == 2

\* _RULE_PRIORITY
RULE_PRIORITY == [extension |-> 100, keyword |-> 80, size |-> 50, mime |-> 60, magic |-> 70]

\* _Decision(weight, source, category, rationale); NoMatch is the value None
ClassifierDecision(weight, source, category, rationale) ==
    [weight |-> weight, source |-> source, category |-> category, rationale |-> rationale]

NoMatch == ClassifierDecision(0, "none", "", <<>>)

\* ClassificationResult(category, confidence, rationale): the confidence in
\* hundredths, the rationale f"{source}:{rationale}" as its two parts
ClassificationResult(category, confidence, rationale) ==
    [category |-> category, confidence |-> confidence, rationale |-> rationale]

\* _normalise_suffix
NormaliseSuffix(suffix) ==
    IF suffix = <<>> THEN suffix
    ELSE IF ~StartsWith(suffix, <<".">>) THEN <<".">> \o Lower(suffix)
    ELSE Lower(suffix)

\* Path.suffix: from the last dot of the name on, unless that dot is the first or
\* the last character
SuffixOf(path) ==
    LET name == NameOf(path)
        dots == {i \in 1 .. Len(name) : name[i] = "."}
        last == CHOOSE i \in dots : \A j \in dots : j <= i
    IN IF dots = {} THEN <<>>
       ELSE IF last > 1 /\ last < Len(name) THEN SubSeq(name, last, Len(name))
       ELSE <<>>

\* the position of suffix in the OrderedDict, 0 when it is not a key
CacheIndex(cache, suffix) ==
    IF \E i \in 1 .. Len(cache) : cache[i].suffix = suffix
    THEN CHOOSE i \in 1 .. Len(cache) : cache[i].suffix = suffix
    ELSE 0

\* the OrderedDict without its entry i
WithoutEntry(cache, i) == SubSeq(cache, 1, i - 1) \o SubSeq(cache, i + 1, Len(cache))

\* an _extension_cache_get that answers with its newest entry, whatever the suffix
ExtensionCacheGet_Newest(cache, suffix) ==
    IF cache # <<>>
    THEN [category |-> cache[Len(cache)].category, found |-> TRUE, cache |-> cache]
    ELSE [category |-> "", found |-> FALSE, cache |-> cache]

\* _extension_cache_get: a hit moves the entry to the end
ExtensionCacheGet(cache, suffix) ==
    LET i == CacheIndex(cache, suffix) IN
    IF i # 0
    THEN [category |-> cache[i].category, found |-> TRUE,
          cache |-> Append(WithoutEntry(cache, i), cache[i])]
    ELSE [category |-> "", found |-> FALSE, cache |-> cache]

\* a cache that remembers a category of its own for every suffix
RememberExtension_Stale(cache, suffix, category) ==
    IF CacheIndex(cache, suffix) # 0 THEN cache
    ELSE Append(cache, [suffix |-> suffix, category |-> "stale"])

\* _remember_extension: the oldest entry goes when the limit is passed
RememberExtension(cache, suffix, category) ==
    LET i == CacheIndex(cache, suffix)
        stored == IF i # 0 THEN [cache EXCEPT ![i].category = category]
                  ELSE Append(cache, [suffix |-> suffix, category |-> category])
    IN IF Len(stored) > CacheLimit THEN Tail(stored) ELSE stored

\* _classify_by_extension: the decision, the cache afterwards, and whether the
\* decision came from the cache and whether an entry was evicted (observation only)
ClassifyByExtension(rules, cache, candidate) ==
    LET suffix == NormaliseSuffix(SuffixOf(candidate.path))
        got == ExtensionCacheGet(cache, suffix)
        extension_rules == IF "extension" \in DOMAIN rules THEN rules.extension
                           ELSE [s \in {} |-> ""]
        after == RememberExtension(got.cache, suffix, extension_rules[suffix])
    IN IF suffix = <<>>
       THEN [decision |-> NoMatch, cache |-> cache, hit |-> FALSE, evicted |-> FALSE]
       ELSE IF got.found /\ got.category # ""
       THEN [decision |-> ClassifierDecision(RULE_PRIORITY.extension, "extension",
                                             got.category, suffix),
             cache |-> got.cache, hit |-> TRUE, evicted |-> FALSE]
       ELSE IF suffix \in DOMAIN extension_rules
       THEN [decision |-> ClassifierDecision(RULE_PRIORITY.extension, "extension",
                                             extension_rules[suffix], suffix),
             cache |-> after, hit |-> FALSE,
             evicted |-> Len(got.cache) >= CacheLimit /\ ~got.found]
       ELSE [decision |-> NoMatch, cache |-> got.cache, hit |-> FALSE, evicted |-> FALSE]

Digits == {"0", "1", "2", "3", "4", "5", "6", "7", "8", "9"}

\* re.split(r"[^a-z0-9]+", name) without the empty pieces, in the order of the name
RECURSIVE SplitTokens(_, _, _)
SplitTokens(name, k, current) ==
    LET piece == IF current = <<>> THEN <<>> ELSE <<current>> IN
    IF k > Len(name) THEN piece
    ELSE IF name[k] \in Digits \/ \E i \in 1 .. Len(LowerCase) : LowerCase[i] = name[k]
    THEN SplitTokens(name, k + 1, Append(current, name[k]))
    ELSE piece \o SplitTokens(name, k + 1, <<>>)

\* the tokens without their repetitions
RECURSIVE Distinct(_)
Distinct(tokens) ==
    IF tokens = <<>> THEN <<>>
    ELSE LET rest == Distinct(SubSeq(tokens, 1, Len(tokens) - 1))
             last == tokens[Len(tokens)]
         IN IF \E n \in 1 .. Len(rest) : rest[n] = last THEN rest ELSE Append(rest, last)

\* _tokenise: a set of strings; a loop over it takes the tokens in an order that the
\* hash seed of the process fixes: here the order of the name or its reverse
Tokenise(name, seed) ==
    LET distinct == Distinct(SplitTokens(name, 1, <<>>))
    IN IF seed = "forward" THEN distinct
       ELSE [n \in 1 .. Len(distinct) |-> distinct[Len(distinct) + 1 - n]]

\* the first of the entries hits of a dict or list in its order, 0 when there is none
FirstEntry(hits) == IF hits = {} THEN 0 ELSE CHOOSE i \in hits : \A j \in hits : i <= j

\* _classify_by_keyword: a token that is a key of the rules, else the first pattern
\* found in the name; the patterns are plain words
ClassifyByKeyword(rules, candidate, seed) ==
    IF "keyword" \notin DOMAIN rules THEN NoMatch
    ELSE LET name == Lower(NameOf(candidate.path))
             keywords == Tokenise(name, seed)
             IsKey(keyword) == \E i \in 1 .. Len(rules.keyword) :
                                   rules.keyword[i].pattern = keyword
             keyed == {n \in 1 .. Len(keywords) : IsKey(keywords[n])}
             keyword == keywords[CHOOSE n \in keyed : \A m \in keyed : n <= m]
             IsKeyword(pattern) == pattern = keyword
             Searched(pattern) ==
                 /\ \A n \in 1 .. Len(keywords) : keywords[n] # pattern
                 /\ Contains(name, pattern)
             found == FirstEntry({i \in 1 .. Len(rules.keyword) :
                                    Searched(rules.keyword[i].pattern)})
         IN IF keyed # {}
            THEN ClassifierDecision(RULE_PRIORITY.keyword, "keyword",
                     rules.keyword[FirstEntry({i \in 1 .. Len(rules.keyword) :
                         IsKeyword(rules.keyword[i].pattern)})].category, keyword)
            ELSE IF found # 0
            THEN ClassifierDecision(RULE_PRIORITY.keyword, "keyword",
                     rules.keyword[found].category, rules.keyword[found].pattern)
            ELSE NoMatch

\* _classify_by_size: the first rule with a category whose bounds hold
ClassifyBySize(rules, candidate) ==
    IF "size" \notin DOMAIN rules THEN NoMatch
    ELSE LET Fits(rule) ==
                 /\ rule.category # ""
                 /\ ("min" \in DOMAIN rule => candidate.size >= rule.min)
                 /\ ("max" \in DOMAIN rule => candidate.size <= rule.max)
             first == FirstEntry({i \in 1 .. Len(rules.size) : Fits(rules.size[i])})
         IN IF first = 0 THEN NoMatch
            ELSE ClassifierDecision(RULE_PRIORITY.size, "size", rules.size[first].category,
                                    <<"json", rules.size[first]>>)

\* mimetypes.guess_type(str(path)): by the suffix, whatever its case
GuessType(path) ==
    LET suffix == Lower(SuffixOf(path)) IN
    IF suffix = <<".", "t", "x", "t">> THEN <<"t", "e", "x", "t", "/", "p", "l", "a", "i", "n">>
    ELSE IF suffix = <<".", "p", "d", "f">> THEN <<"a", "p", "p", "l", "i", "c", "a", "t", "i", "o", "n", "/", "p", "d", "f">>
    ELSE IF suffix = <<".", "j", "p", "g">> THEN <<"i", "m", "a", "g", "e", "/", "j", "p", "e", "g">>
    ELSE <<>>

\* str.rstrip("*")
RECURSIVE RStripStar(_)
RStripStar(s) ==
    IF s # <<>> /\ s[Len(s)] = "*" THEN RStripStar(SubSeq(s, 1, Len(s) - 1)) ELSE s

\* _classify_by_mime
ClassifyByMime(rules, candidate) ==
    IF "mime" \notin DOMAIN rules THEN NoMatch
    ELSE LET mime_type == GuessType(candidate.path)
             Matches(pattern) ==
                 mime_type = pattern \/ StartsWith(mime_type, RStripStar(pattern))
             found == FirstEntry({i \in 1 .. Len(rules.mime) : Matches(rules.mime[i].pattern)})
         IN IF mime_type = <<>> \/ found = 0 THEN NoMatch
            ELSE ClassifierDecision(RULE_PRIORITY.mime, "mime", rules.mime[found].category,
                                    mime_type)

\* the first 32 bytes of the files on disk; a path that cannot be opened has none
Unreadable == <<"OSError">>

FileHeader(path) ==
    LET name == NameOf(path) IN
    IF name \in {<<"i", "n", "v", "o", "i", "c", "e", ".", "P", "D", "F">>, <<"a", ".", "p", "d", "f">>} THEN <<"%", "P", "D", "F", "-", "1", ".", "4">>
    ELSE IF name = <<"n", "o", "t", "e", "s", "_", "r", "e", "p", ".", "t", "x", "t">> THEN <<"n", "o", "t", "e", "s">>
    ELSE IF name = <<"r", "e", "p", "_", "i", "n", "v", "o", "i", "c", "e", ".", "j", "p", "g">> THEN <<"J", "F", "I", "F">>
    ELSE Unreadable

\* bytes.fromhex on the pairs of digits that occur; anything else is a ValueError
FromHex(digits) ==
    IF digits = <<>> THEN <<>>
    ELSE IF digits = <<"2", "5", "5", "0", "4", "4", "4", "6">> THEN <<"%", "P", "D", "F">>
    ELSE IF digits = <<"4", "a", "4", "6">> THEN <<"J", "F">>
    ELSE <<"ValueError">>

\* _parse_magic_pattern: the bytes to look for, empty when there is nothing to look for
ParseMagicPattern(pattern) ==
    IF StartsWith(pattern, <<"0", "x">>)
    THEN LET bytes == FromHex(SubSeq(pattern, 3, Len(pattern)))
         IN IF bytes = <<"ValueError">> THEN <<>> ELSE bytes
    ELSE pattern

\* _classify_by_magic
ClassifyByMagic(rules, candidate) ==
    IF "magic" \notin DOMAIN rules THEN NoMatch
    ELSE LET header == FileHeader(candidate.path)
             Matches(pattern) ==
                 /\ ParseMagicPattern(pattern) # <<>>
                 /\ StartsWith(header, ParseMagicPattern(pattern))
             found == FirstEntry({i \in 1 .. Len(rules.magic) :
                                    Matches(rules.magic[i].pattern)})
         IN IF header = Unreadable \/ found = 0 THEN NoMatch
            ELSE ClassifierDecision(RULE_PRIORITY.magic, "magic", rules.magic[found].category,
                                    rules.magic[found].pattern)

\* _source_priority
SourcePriority(source) ==
    LET order == <<"extension", "keyword", "magic", "mime", "size">>
    IN IF \E i \in 1 .. Len(order) : order[i] = source
       THEN (CHOOSE i \in 1 .. Len(order) : order[i] = source) - 1
       ELSE Len(order)

\* a classify that takes the decision that was appended first
Best_FirstAppended(decisions) == decisions[1]

\* decisions.sort(key=lambda d: (-d.weight, self._source_priority(d.source))) and
\* decisions[0]
Best(decisions) ==
    LET Before(d, e) ==
            \/ d.weight > e.weight
            \/ d.weight = e.weight /\ SourcePriority(d.source) <= SourcePriority(e.source)
    IN decisions[CHOOSE i \in 1 .. Len(decisions) :
                     \A j \in 1 .. Len(decisions) : Before(decisions[i], decisions[j])]

\* min(best.weight / 100.0, 1.0), in hundredths
Confidence(weight) == IF weight < 100 THEN weight ELSE 100

\* ClassificationEngine.classify: the result and the cache afterwards
Classify(self, cache, candidate) ==
    LET rules == self.rules
        extension == ClassifyByExtension(rules, cache, candidate)
        IsMatch(d) == d # NoMatch
        decisions == SelectSeq(<<extension.decision,
                                 ClassifyByKeyword(rules, candidate, self.seed),
                                 ClassifyBySize(rules, candidate),
                                 ClassifyByMime(rules, candidate),
                                 ClassifyByMagic(rules, candidate)>>, IsMatch)
        best == Best(decisions)
    IN [result |-> IF decisions # <<>>
                   THEN ClassificationResult(best.category, Confidence(best.weight),
                                             <<best.source, best.rationale>>)
                   ELSE ClassificationResult(self.default_category, 0, <<"no-match">>),
        cache |-> extension.cache,
        hit |-> extension.hit,
        evicted |-> extension.evicted]

\* the rules of each family
ExtensionRules ==
    [s \in {<<".", "p", "d", "f">>, <<".", "t", "x", "t">>, <<".", "j", "p", "g">>} |->
        IF s = <<".", "p", "d", "f">> THEN "documents" ELSE IF s = <<".", "t", "x", "t">> THEN "text" ELSE ""]

KeywordRules ==
    <<[pattern |-> <<"i", "n", "v", "o", "i", "c", "e">>, category |-> "finance"],
      [pattern |-> <<"r", "e", "p">>, category |-> "reports"],
      [pattern |-> <<"l", "o", "b">>, category |-> "blobs"]>>

SizeRules ==
    <<[category |-> "", max |-> 4096],
      [min |-> 0, max |-> 1024, category |-> "small"],
      [min |-> 2048, category |-> "large"]>>

MimeRules ==
    <<[pattern |-> <<"t", "e", "x", "t", "/", "*">>, category |-> "text_mime"],
      [pattern |-> <<"a", "p", "p", "l", "i", "c", "a", "t", "i", "o", "n", "/", "p", "d", "f">>, category |-> "pdf_mime"]>>

MagicRules ==
    <<[pattern |-> <<"0", "x">>, category |-> "nothing"],
      [pattern |-> <<"0", "x", "4", "a", "4", "6">>, category |-> "jpeg_magic"],
      [pattern |-> <<"%", "P", "D", "F", "-">>, category |-> "pdf_magic"],
      [pattern |-> <<"0", "x", "2", "5", "5", "0", "4", "4", "4", "6">>, category |-> "pdf_hex"]>>

AllRules ==
    [extension |-> ExtensionRules, keyword |-> KeywordRules, size |-> SizeRules,
     mime |-> MimeRules, magic |-> MagicRules]

\* the rule sets: the families that are configured
RuleSets ==
    {[family \in families |-> AllRules[family]] :
        families \in {{}, {"extension"}, {"keyword", "size"}, {"size", "mime"},
                      {"mime", "magic"}, {"size", "mime", "magic"},
                      {"keyword", "magic", "mime"},
                      {"extension", "keyword", "size", "mime", "magic"}}}

\* ClassificationEngine(rules) in a process with this hash seed
ClassificationEngine(rules, seed) ==
    [rules |-> rules, default_category |-> "misc", seed |-> seed]

Engines == {ClassificationEngine(rules, seed) : rules \in RuleSets,
                                                seed \in {"forward", "backward"}}

\* the candidates that are classified
ClassifierInputs ==
    {FileCandidate(<<<<"/">>, <<"t", "m", "p">>, name>>, size) :
        name \in {<<"i", "n", "v", "o", "i", "c", "e", ".", "P", "D", "F">>, <<"a", ".", "p", "d", "f">>, <<"n", "o", "t", "e", "s", "_", "r", "e", "p", ".", "t", "x", "t">>, <<"r", "e", "p", "_", "i", "n", "v", "o", "i", "c", "e", ".", "j", "p", "g">>,
                  <<"b", "l", "o", "b">>, <<".", "h", "i", "d", "d", "e", "n">>},
        size \in {512, 2048}}

NoResult ==
    [candidate |-> NoCandidate, result |-> ClassificationResult("", 0, <<>>),
     hit |-> FALSE]

\* ------------------------------------------------------------------- state
NoEvent == [item |-> 0, flagSkip |-> FALSE, occupied |-> FALSE, mismatch |-> FALSE,
            exc |-> "none"]

NoFile == [kind |-> "absent", val |-> <<>>]

NoPlan == [items |-> <<>>, skipped |-> <<>>, summary |-> <<>>]

NoLocals == [destination |-> <<>>, source_digest |-> <<>>, dest_digest |-> <<>>,
             exc |-> "none"]

\* the filter's decision for candidate i: skipped as hidden, or kept
Decision(i, category, hidden) ==
    [path |-> SrcPath(i), size |-> i, category |-> category, should_skip |-> hidden,
     reason |-> IF hidden THEN "hidden" ELSE "", flags |-> IF hidden THEN {"hidden"} ELSE {}]

\* the classifier's categories for the candidates: all the same, or alternating
CategoryLayouts == {[i \in 1 .. MaxItems |-> 1], [i \in 1 .. MaxItems |-> 1 + (i % 2)]}

\* the scan results: MaxItems candidates of which the filter skips at most one
CandidateLists ==
    {[i \in 1 .. MaxItems |-> Decision(i, cat[i], i = h)] :
        cat \in CategoryLayouts, h \in 0 .. MaxItems}

\* st_dev of the source directories: all on the destination's device, all on
\* another one, or alternating either way
DeviceLayouts ==
    {[i \in 1 .. MaxItems |-> DestDevice], [i \in 1 .. MaxItems |-> 1],
     [i \in 1 .. MaxItems |-> i % 2], [i \in 1 .. MaxItems |-> (i + 1) % 2]}

\* the destination files that exist before anything runs
InitialDestinations == {{}, {DstPath(1, <<>>)}}

MoverInit(layouts, destinations) ==
    /\ candidates = <<>>
    /\ plannerStrategy = "none"
    /\ moverStrategy = "none"
    /\ devOf \in layouts
    /\ \E pre \in destinations :
          /\ fs = [p \in {SrcPath(i) : i \in 1 .. MaxItems} \cup pre |->
                      IF p.root = "src" THEN p.sub ELSE 0]
          /\ dirs = {Parent(SrcPath(i)) : i \in 1 .. MaxItems} \cup {Parent(p) : p \in pre}
    /\ pc = "start"
    /\ origin = "none"
    /\ plan = [items |-> <<>>, skipped |-> <<>>, summary |-> <<>>]
    /\ items = <<>>
    /\ idx = 1
    /\ rollback_steps = <<>>
    /\ processed = 0
    /\ succeeded = 0
    /\ skipped = 0
    /\ failed = 0
    /\ bytes_processed = 0
    /\ errors = <<>>
    /\ rollbackFile = NoFile
    /\ rollbackScript = <<>>
    /\ restored = <<>>
    /\ ev = NoEvent
    /\ attempts = <<>>
    /\ preFs = fs
    /\ extBudget = MaxExternal
    /\ step = "idle"
    /\ local = NoLocals

\* EventType
EventTypes == {"CREATED", "MODIFIED", "DELETED", "MOVED"}

\* a watched Path: stem and suffix of its name
WPath(stem, suffix) == [stem |-> stem, suffix |-> suffix]

\* the value None of dest_path
None == WPath("", "")

\* a metadata dict with no key
EmptyMap == [k \in {} |-> 0]

\* FileSystemEvent(path, event_type, timestamp, is_directory, dest_path, metadata)
FileSystemEvent(path, event_type, timestamp, is_directory, dest_path, metadata) ==
    [path |-> path, event_type |-> event_type, timestamp |-> timestamp,
     is_directory |-> is_directory, dest_path |-> dest_path, metadata |-> metadata]

\* no call was made on the EventQueue yet
NoCall ==
    [op |-> "none", force |-> FALSE, ready |-> 0,
     event |-> FileSystemEvent(None, "none", 0, FALSE, None, EmptyMap)]

\* no EventQueue and no watcher thread exist
WatcherAtRest ==
    /\ now = 0
    /\ config = [debounce_interval |-> 0, flush_interval |-> 0, blacklist_patterns |-> {}]
    /\ pending = <<>>
    /\ emitted = <<>>
    /\ added = 0
    /\ lastCall = NoCall
    /\ queue = <<>>
    /\ stop_event = FALSE
    /\ worker = "none"
    /\ caller = "new"
    /\ beforeStop = {}
    /\ outcomes = <<>>
    /\ backend = "none"

\* no filter was constructed
FilterAtRest ==
    /\ sysfilter = DefaultFilter
    /\ lastDecision = NoDecision
    /\ filtered = NoBatch

\* no engine was constructed
ClassifierAtRest ==
    /\ engine = ClassificationEngine([family \in {} |-> <<>>], "forward")
    /\ extension_cache = <<>>
    /\ lastResult = NoResult
    /\ evicted = FALSE

\* no Planner runs its own tools
PlannerAtRest ==
    /\ sourceFiles = <<>>
    /\ replan = NoPlan

\* no backend polls and the watcher is not restarted
BackendAtRest ==
    /\ watched = <<>>
    /\ snapshot = <<>>
    /\ polls = 0
    /\ changes = 0
    /\ orphans = 0
    /\ calls = 0

\* mover.FileMover moves nothing
DuplicatesAtRest ==
    /\ listing = <<>>
    /\ inbox = {}
    /\ lastMove = [strategy |-> "none"]

ToolsAtRest == FilterAtRest /\ ClassifierAtRest /\ PlannerAtRest /\ BackendAtRest /\ DuplicatesAtRest

Init ==
    /\ MoverInit(DeviceLayouts, InitialDestinations)
    /\ WatcherAtRest
    /\ ToolsAtRest

\* ----------------------------------------------------------------- actions
frame_run == <<idx, rollback_steps, processed, succeeded, skipped, failed,
               bytes_processed, errors, ev, attempts>>

frame_setup == <<candidates, plannerStrategy, devOf>>

\* Planner(conflict_strategy=...).build_plan(sources, destination_root)
BuildPlan ==
    /\ UNCHANGED aside
    /\ pc = "start"
    /\ \E strategy \in Strategies, decisions \in CandidateLists :
          /\ plannerStrategy' = strategy
          /\ candidates' = decisions
          /\ plan' = BuildPlanOf(fs, devOf, strategy, decisions)
    /\ pc' = "planned"
    /\ UNCHANGED <<devOf, moverStrategy, frame_run, fs, dirs, origin, items, rollbackFile,
                   rollbackScript, restored, preFs, extBudget>>

\* the first lines of execute_plan: the counters and the step list are fresh
EnterExecutePlan(plan_items, from) ==
    /\ UNCHANGED aside
    /\ moverStrategy' \in Strategies
    /\ items' = plan_items
    /\ origin' = from
    /\ pc' = "exec"
    /\ idx' = 1
    /\ rollback_steps' = <<>>
    /\ processed' = 0
    /\ succeeded' = 0
    /\ skipped' = 0
    /\ failed' = 0
    /\ bytes_processed' = 0
    /\ errors' = <<>>
    /\ ev' = NoEvent
    /\ attempts' = [k \in 1 .. Len(plan_items) |-> 0]
    /\ preFs' = fs
    /\ UNCHANGED <<frame_setup, fs, dirs, plan, rollbackFile, rollbackScript, restored,
                   extBudget>>

\* FileMover.execute_plan(plan.items, rollback_path)
ExecutePlan ==
    /\ pc = "planned"
    /\ EnterExecutePlan(plan.items, "planner")

\* a PlanItem built by the caller, as the mover's tests build them: of source k
CallerItem(k) ==
    {[source |-> SrcPath(k), destination |-> DstPath(1, <<>>), operation |-> op,
      same_volume |-> (op = "rename"), size |-> k, conflict |-> FALSE,
      hash_digest |-> <<>>, category |-> 1, flags |-> fl] :
        op \in {"rename", "copy", "link"}, fl \in {{}, {"conflict"}}}

\* FileMover.execute_plan(items, rollback_path) on items the caller built
ExecuteCallerItems ==
    /\ pc = "start"
    /\ \E first \in CallerItem(1), second \in CallerItem(2) :
          EnterExecutePlan(<<first, second>>, "caller")

\* one iteration of the for loop of execute_plan
ExecuteNext ==
    /\ UNCHANGED aside
    /\ pc = "exec"
    /\ idx <= Len(items)
    /\ \E fault \in {"none", "corrupt", "denied"} :
        LET item == items[idx]
            r == ExecuteItem(fs, dirs, devOf, item, moverStrategy, fault)
            how == IF r.exc = "none" THEN "succeeded" ELSE HandlerOf(r.exc)
        IN /\ processed' = processed + 1
           /\ attempts' = [attempts EXCEPT ![idx] = @ + 1]
           /\ idx' = idx + 1
           /\ IF SkipsOnFlag(item, moverStrategy)
              THEN /\ skipped' = skipped + 1
                   /\ ev' = [NoEvent EXCEPT !.item = idx, !.flagSkip = TRUE]
                   /\ UNCHANGED <<fs, dirs, items, rollback_steps, succeeded, failed,
                                  bytes_processed, errors, pc>>
              ELSE /\ fs' = r.fs
                   /\ dirs' = r.dirs
                   /\ items' = [items EXCEPT ![idx].hash_digest = r.digest]
                   /\ ev' = [item |-> idx, flagSkip |-> FALSE, occupied |-> r.occupied,
                             mismatch |-> r.mismatch, exc |-> r.exc]
                   /\ rollback_steps' = IF how = "succeeded"
                                        THEN rollback_steps \o r.step ELSE rollback_steps
                   /\ succeeded' = IF how = "succeeded" THEN succeeded + 1 ELSE succeeded
                   /\ bytes_processed' = IF how = "succeeded"
                                         THEN bytes_processed + item.size
                                         ELSE bytes_processed
                   /\ skipped' = IF how = "skipped" THEN skipped + 1 ELSE skipped
                   /\ failed' = IF how = "failed" THEN failed + 1 ELSE failed
                   /\ errors' = IF how = "failed"
                                THEN Append(errors, [source |-> item.source, exc |-> r.exc])
                                ELSE errors
                   /\ pc' = IF how = "propagate" THEN "raised" ELSE pc
    /\ UNCHANGED <<frame_setup, moverStrategy, origin, plan, rollbackFile, rollbackScript, restored,
                   preFs, extBudget>>

\* the end of execute_plan: _write_rollback, then the summary is returned
WriteRollback ==
    /\ UNCHANGED aside
    /\ pc = "exec"
    /\ idx > Len(items)
    /\ rollbackFile' = RollbackJson(rollback_steps)
    /\ rollbackScript' = RollbackScriptOf(rollback_steps)
    /\ dirs' = dirs \cup {[root |-> "log", sub |-> 0]}
    /\ pc' = "done"
    /\ UNCHANGED <<frame_setup, moverStrategy, frame_run, fs, origin, plan, items, restored, preFs,
                   extBudget>>

\* the rollback command on the file execute_plan wrote: load_entries, then restore
ReplayRollback ==
    /\ UNCHANGED aside
    /\ pc = "done"
    /\ LET loaded == LoadEntries(rollbackFile)
           r == Restore(fs, dirs, loaded.entries, FALSE)
       IN IF loaded.exc # "none"
          THEN /\ pc' = "rollback_raised"
               /\ UNCHANGED <<fs, dirs, restored>>
          ELSE /\ pc' = "rollback_done"
               /\ fs' = r.fs
               /\ dirs' = r.dirs
               /\ restored' = r.restored
    /\ UNCHANGED <<frame_setup, moverStrategy, frame_run, origin, plan, items, rollbackFile,
                   rollbackScript, preFs, extBudget>>

\* another process puts a file at the destination of the item about to be executed
ExternalCreate ==
    /\ UNCHANGED aside
    /\ pc = "exec"
    /\ idx <= Len(items)
    /\ extBudget > 0
    /\ ~Exists(fs, items[idx].destination)
    /\ fs' = Put(fs, items[idx].destination, 0)
    /\ dirs' = dirs \cup {Parent(items[idx].destination)}
    /\ extBudget' = extBudget - 1
    /\ UNCHANGED <<frame_setup, moverStrategy, frame_run, pc, origin, plan, items,
                   rollbackFile, rollbackScript, restored, preFs>>

\* another process removes the source of the item about to be executed
ExternalDelete ==
    /\ UNCHANGED aside
    /\ pc = "exec"
    /\ idx <= Len(items)
    /\ extBudget > 0
    /\ Exists(fs, items[idx].source)
    /\ fs' = Remove(fs, items[idx].source)
    /\ extBudget' = extBudget - 1
    /\ UNCHANGED <<frame_setup, moverStrategy, frame_run, pc, origin, plan, items, dirs,
                   rollbackFile, rollbackScript, restored, preFs>>

Next ==
    \/ BuildPlan
    \/ ExecutePlan
    \/ ExecuteCallerItems
    \/ ExecuteNext
    \/ WriteRollback
    \/ ReplayRollback
    \/ ExternalCreate
    \/ ExternalDelete

Spec == Init /\ [][Next]_vars

\* ------------------------------------- one copy item, filesystem call by call
\* what the steps of one _execute_item call leave alone
frame_item == <<candidates, plannerStrategy, devOf, origin, plan, idx, rollback_steps,
                processed, succeeded, skipped, failed, bytes_processed, errors,
                rollbackFile, rollbackScript, restored, ev, attempts, extBudget,
                queueVars, threadVars, toolVars>>

\* the comparison of the two digests in _copy_with_verification, trusting the copy
DigestsMatch_Trusting(source_digest, dest_digest) == TRUE

\* the comparison of the two digests in _copy_with_verification
DigestsMatch(source_digest, dest_digest) == source_digest = dest_digest

\* the exception leaves _execute_item
Raise(exc) ==
    /\ step' = "raised"
    /\ local' = [local EXCEPT !.exc = exc]

\* execute_plan reaches _execute_item for a copy item: destination = item.destination
CopyBegin ==
    /\ pc = "start"
    /\ step = "idle"
    /\ \E k \in 1 .. MaxItems, strategy \in Strategies :
          /\ moverStrategy' = strategy
          /\ items' = <<[source |-> SrcPath(k), destination |-> DstPath(1, <<>>),
                         operation |-> "copy", same_volume |-> FALSE, size |-> k,
                         conflict |-> FALSE, hash_digest |-> <<>>, category |-> 1,
                         flags |-> {}]>>
          /\ local' = [NoLocals EXCEPT !.destination = DstPath(1, <<>>)]
    /\ pc' = "exec"
    /\ step' = "mkdir"
    /\ preFs' = fs
    /\ UNCHANGED <<frame_item, fs, dirs>>

\* destination.parent.mkdir(parents=True, exist_ok=True)
CopyMkdir ==
    /\ step = "mkdir"
    /\ \/ /\ dirs' = dirs \cup {Parent(local.destination)}
          /\ step' = "resolve"
          /\ UNCHANGED local
       \/ /\ Raise("PermissionError")
          /\ UNCHANGED dirs
    /\ UNCHANGED <<frame_item, moverStrategy, items, pc, preFs, fs>>

\* the destination.exists() block: ConflictError, a free name, or the same path
CopyResolve ==
    /\ step = "resolve"
    /\ LET res == ResolveAtExecution(fs, local.destination, moverStrategy)
       IN IF res.exc # "none"
          THEN Raise(res.exc)
          ELSE /\ local' = [local EXCEPT !.destination = res.destination]
               /\ step' = "stream"
    /\ UNCHANGED <<frame_item, moverStrategy, items, pc, preFs, fs, dirs>>

\* the streaming loop: the source is read and hashed, the temporary file written
\* (intact, damaged by the destination filesystem, or cut short by a write error)
CopyStream ==
    /\ step = "stream"
    /\ LET source == items[1].source
           temp_destination == TempPath(local.destination)
       IN \/ /\ fs' = Put(fs, temp_destination, fs[source])
             /\ local' = [local EXCEPT !.source_digest = Sha256(fs[source])]
             /\ step' = "verify"
          \/ /\ fs' = Put(fs, temp_destination, Damaged(fs[source]))
             /\ local' = [local EXCEPT !.source_digest = Sha256(fs[source])]
             /\ step' = "verify"
          \/ /\ fs' = Put(fs, temp_destination, Damaged(fs[source]))
             /\ Raise("OSError")
    /\ UNCHANGED <<frame_item, moverStrategy, items, pc, preFs, dirs>>

\* the temporary file is hashed again and the digests compared; on a mismatch the
\* temporary file is unlinked and VerificationError raised
CopyVerify ==
    /\ step = "verify"
    /\ LET temp_destination == TempPath(local.destination)
           dest_digest == Sha256(fs[temp_destination])
       IN IF DigestsMatch(local.source_digest, dest_digest)
          THEN /\ local' = [local EXCEPT !.dest_digest = dest_digest]
               /\ step' = "publish"
               /\ UNCHANGED fs
          ELSE /\ fs' = Remove(fs, temp_destination)
               /\ step' = "raised"
               /\ local' = [local EXCEPT !.dest_digest = dest_digest,
                                         !.exc = "VerificationError"]
    /\ UNCHANGED <<frame_item, moverStrategy, items, pc, preFs, dirs>>

\* os.replace(temp_destination, destination), which the system may refuse
CopyPublish ==
    /\ step = "publish"
    /\ LET r == OsReplace(fs, devOf, TempPath(local.destination), local.destination)
       IN \/ IF r.exc = "none"
             THEN /\ fs' = r.fs
                  /\ step' = "assign"
                  /\ UNCHANGED local
             ELSE /\ Raise(r.exc)
                  /\ UNCHANGED fs
          \/ /\ Raise("PermissionError")
             /\ UNCHANGED fs
    /\ UNCHANGED <<frame_item, moverStrategy, items, pc, preFs, dirs>>

\* item.hash_digest = digest
CopyAssignDigest ==
    /\ step = "assign"
    /\ items' = [items EXCEPT ![1].hash_digest = local.source_digest]
    /\ step' = "delete"
    /\ UNCHANGED <<frame_item, moverStrategy, local, pc, preFs, fs, dirs>>

\* self._delete_source(item.source), then the RollbackStep is returned
CopyDeleteSource ==
    /\ step = "delete"
    /\ \E denied \in BOOLEAN :
          LET u == DeleteSource(fs, items[1].source, denied)
          IN /\ fs' = u.fs
             /\ IF u.exc = "none"
                THEN step' = "returned" /\ UNCHANGED local
                ELSE Raise(u.exc)
    /\ UNCHANGED <<frame_item, moverStrategy, items, pc, preFs, dirs>>

CopyNext ==
    \/ CopyBegin
    \/ CopyMkdir
    \/ CopyResolve
    \/ CopyStream
    \/ CopyVerify
    \/ CopyPublish
    \/ CopyAssignDigest
    \/ CopyDeleteSource

CopySpec == Init /\ [][CopyNext]_vars

\* ------------------------------------------------------------ EventQueue
MaxEvents == 3
MaxTime == 2

\* dict.update: the keys of new overlay those of old
Update(old, new) ==
    [k \in DOMAIN old \cup DOMAIN new |-> IF k \in DOMAIN new THEN new[k] ELSE old[k]]

\* a _merge_events without the CREATED + MODIFIED rule: the new type always wins
MergeEvents_NewTypeWins(existing, new) ==
    [existing EXCEPT !.event_type = new.event_type,
                     !.timestamp = new.timestamp,
                     !.is_directory = new.is_directory,
                     !.dest_path = IF new.dest_path # None THEN new.dest_path ELSE @,
                     !.metadata = Update(@, new.metadata)]

\* a _merge_events for which a pending DELETED stays DELETED
MergeEvents_DeletedSticks(existing, new) ==
    LET merged_type ==
            IF new.event_type = "DELETED" \/ existing.event_type = "DELETED" THEN "DELETED"
            ELSE IF new.event_type = "MOVED" THEN "MOVED"
            ELSE IF existing.event_type = "CREATED" /\ new.event_type = "MODIFIED"
            THEN "CREATED"
            ELSE new.event_type
    IN [existing EXCEPT !.event_type = merged_type,
                        !.timestamp = new.timestamp,
                        !.is_directory = new.is_directory,
                        !.dest_path = IF new.dest_path # None THEN new.dest_path ELSE @,
                        !.metadata = Update(@, new.metadata)]

\* EventQueue._merge_events: the existing event is updated in place and returned
MergeEvents(existing, new) ==
    LET merged_type ==
            IF new.event_type = "DELETED" THEN "DELETED"
            ELSE IF new.event_type = "MOVED" THEN "MOVED"
            ELSE IF existing.event_type = "CREATED" /\ new.event_type = "MODIFIED"
            THEN "CREATED"
            ELSE new.event_type
    IN [existing EXCEPT !.event_type = merged_type,
                        !.timestamp = new.timestamp,
                        !.is_directory = new.is_directory,
                        !.dest_path = IF new.dest_path # None THEN new.dest_path ELSE @,
                        !.metadata = Update(@, new.metadata)]

\* _QueuedEvent(event, last_seen) under its key; folded lists, for observation only,
\* the events the queued one was built from: <<id, event_type>> in arrival order
QueuedEvent(event, last_seen, id) ==
    [key |-> event.path, event |-> event, last_seen |-> last_seen,
     folded |-> <<<<id, event.event_type>>>>]

\* position of key in the dict, 0 when it is absent: self._pending.get(key)
IndexOf(pend, key) ==
    IF \E i \in 1 .. Len(pend) : pend[i].key = key
    THEN CHOOSE i \in 1 .. Len(pend) : pend[i].key = key
    ELSE 0

\* EventQueue.add at time t: merge within debounce_interval, else (re)assign the key
AddOf(pend, event, t, debounce_interval, id) ==
    LET i == IndexOf(pend, event.path) IN
    IF i # 0 /\ (t - pend[i].last_seen) <= debounce_interval
    THEN [pend EXCEPT ![i] = [@ EXCEPT !.event = MergeEvents(@, event),
                                       !.last_seen = t,
                                       !.folded = Append(@, <<id, event.event_type>>)]]
    ELSE IF i # 0
    THEN [pend EXCEPT ![i] = QueuedEvent(event, t, id)]
    ELSE Append(pend, QueuedEvent(event, t, id))

\* a flush_due that leaves what it emits in the pending map
FlushOf_Keeping(pend, t, flush_interval, force) ==
    LET Ready(queued) == force \/ (t - queued.last_seen) >= flush_interval
        Emitted(queued) == [event |-> queued.event, folded |-> queued.folded]
        ready == SelectSeq(pend, Ready)
    IN [ready |-> [i \in 1 .. Len(ready) |-> Emitted(ready[i])],
        pending |-> pend]

\* a flush_due that asks for more than flush_interval
FlushOf_Strict(pend, t, flush_interval, force) ==
    LET Ready(queued) == force \/ (t - queued.last_seen) > flush_interval
        Kept(queued) == ~Ready(queued)
        Emitted(queued) == [event |-> queued.event, folded |-> queued.folded]
        ready == SelectSeq(pend, Ready)
    IN [ready |-> [i \in 1 .. Len(ready) |-> Emitted(ready[i])],
        pending |-> SelectSeq(pend, Kept)]

\* the locked part of EventQueue.flush_due at time t: the ready list and what stays
FlushOf(pend, t, flush_interval, force) ==
    LET Ready(queued) == force \/ (t - queued.last_seen) >= flush_interval
        Kept(queued) == ~Ready(queued)
        Emitted(queued) == [event |-> queued.event, folded |-> queued.folded]
        ready == SelectSeq(pend, Ready)
    IN [ready |-> [i \in 1 .. Len(ready) |-> Emitted(ready[i])],
        pending |-> SelectSeq(pend, Kept)]

\* "if ready: self._emit(ready)": the callback is called once with the whole list
EmitOf(batches, ready) == IF ready # <<>> THEN Append(batches, ready) ELSE batches

File1 == WPath("file1", ".txt")
File2 == WPath("file2", ".txt")
TmpFile == WPath("file1", ".tmp")
MovedTo == WPath("moved", ".txt")

\* the events a backend or a caller makes at time t
EventInputs(t) ==
    {FileSystemEvent(File1, "CREATED", t, TRUE, None, EmptyMap),
     FileSystemEvent(File1, "MODIFIED", t, FALSE, None,
                     [k \in {"size", "mtime"} |-> IF k = "size" THEN 2 ELSE 1]),
     FileSystemEvent(File1, "DELETED", t, FALSE, None, EmptyMap),
     FileSystemEvent(File1, "MOVED", t, FALSE, MovedTo, [k \in {"size"} |-> 1]),
     FileSystemEvent(File2, "CREATED", t, FALSE, None, EmptyMap)}

\* EventQueue(emit, debounce_interval=..., flush_interval=...), the flush interval
\* being the longer one as with the default values
QueueConfigs ==
    {[debounce_interval |-> 1, flush_interval |-> 2, blacklist_patterns |-> {}]}

moverVars == <<candidates, plannerStrategy, moverStrategy, devOf, fs, dirs, pc, origin,
               plan, items, idx, rollback_steps, processed, succeeded, skipped, failed,
               bytes_processed, errors, rollbackFile, rollbackScript, restored, ev,
               attempts, preFs, extBudget, step, local>>

\* no plan is built or executed
MoverAtRest == MoverInit({[i \in 1 .. MaxItems |-> DestDevice]}, {{}})

QueueInit ==
    /\ MoverAtRest
    /\ ToolsAtRest
    /\ now = 0
    /\ config \in QueueConfigs
    /\ pending = <<>>
    /\ emitted = <<>>
    /\ added = 0
    /\ lastCall = NoCall
    /\ queue = <<>>
    /\ stop_event = FALSE
    /\ worker = "none"
    /\ caller = "new"
    /\ beforeStop = {}
    /\ outcomes = <<>>
    /\ backend = "none"

\* EventQueue.add(event)
QueueAdd ==
    /\ added < MaxEvents
    /\ \E event \in EventInputs(now) :
          /\ pending' = AddOf(pending, event, now, config.debounce_interval, added + 1)
          /\ lastCall' = [NoCall EXCEPT !.op = "add", !.event = event]
    /\ added' = added + 1
    /\ UNCHANGED <<moverVars, toolVars, threadVars, now, config, emitted>>

\* EventQueue.flush_due(force=...)
QueueFlushDue ==
    /\ \E force \in BOOLEAN :
          LET r == FlushOf(pending, now, config.flush_interval, force)
          IN /\ pending' = r.pending
             /\ emitted' = EmitOf(emitted, r.ready)
             /\ lastCall' = [NoCall EXCEPT !.op = "flush_due", !.force = force,
                                           !.ready = Len(r.ready)]
    /\ UNCHANGED <<moverVars, toolVars, threadVars, now, config, added>>

\* time passes
Tick ==
    /\ now < MaxTime
    /\ now' = now + 1
    /\ UNCHANGED <<moverVars, toolVars, threadVars, config, pending, emitted, added, lastCall>>

QueueNext ==
    \/ QueueAdd
    \/ QueueFlushDue
    \/ Tick

QueueSpec == QueueInit /\ [][QueueNext]_vars

\* EventQueue.clear()
QueueClear ==
    /\ pending # <<>>
    /\ pending' = <<>>
    /\ lastCall' = [NoCall EXCEPT !.op = "clear"]
    /\ UNCHANGED <<moverVars, toolVars, threadVars, now, config, emitted, added>>

\* the three calls of the EventQueue
QueueCallsNext ==
    \/ QueueAdd
    \/ QueueFlushDue
    \/ QueueClear
    \/ Tick

QueueCallsSpec == QueueInit /\ [][QueueCallsNext]_vars

\* -------------------------------------------------------- RealtimeWatcher
MaxPublished == 2

\* _Sentinel, as an item of the queue
Sentinel == [kind |-> "sentinel", id |-> 0, event |-> NoCall.event]

\* the directory given as paths=[Path("/tmp")]
WatchedDir == "/tmp/"

\* path.name and str(path), as the pieces a pattern can tell apart
PathName(path) == <<path.stem, path.suffix>>
PathStr(path) == <<WatchedDir, path.stem, path.suffix>>

\* the glob pattern "*" + suffix
SuffixGlob(suffix) == <<"*", suffix>>

\* the glob pattern that names a directory: dir + "*" + suffix
DirGlob(dir, suffix) == <<dir, "*", suffix>>

\* the glob pattern stem + "*"
StemGlob(stem) == <<stem, "*">>

\* fnmatch.fnmatch(name, pattern): "*" stands for any run of pieces, "/" included
RECURSIVE FnMatch(_, _)
FnMatch(name, pattern) ==
    IF pattern = <<>> THEN name = <<>>
    ELSE IF Head(pattern) = "*"
    THEN FnMatch(name, Tail(pattern)) \/ (name # <<>> /\ FnMatch(Tail(name), pattern))
    ELSE name # <<>> /\ Head(name) = Head(pattern) /\ FnMatch(Tail(name), Tail(pattern))

\* an _is_blacklisted that looks at the base name only
IsBlacklisted_NameOnly(path, blacklist_patterns) ==
    \E pattern \in blacklist_patterns : FnMatch(PathName(path), pattern)

\* RealtimeWatcher._is_blacklisted
IsBlacklisted(path, blacklist_patterns) ==
    \E pattern \in blacklist_patterns :
        FnMatch(PathName(path), pattern) \/ FnMatch(PathStr(path), pattern)

\* the events published to the watcher at time t
WatcherInputs(t) ==
    {FileSystemEvent(File1, "CREATED", t, FALSE, None, EmptyMap),
     FileSystemEvent(File1, "MODIFIED", t, FALSE, None, EmptyMap),
     FileSystemEvent(File2, "MODIFIED", t, FALSE, None, EmptyMap),
     FileSystemEvent(TmpFile, "CREATED", t, FALSE, None, EmptyMap)}

\* RealtimeWatcher(paths, callback, debounce_interval=..., batch_interval=...,
\* blacklist_patterns=...)
WatcherConfigs ==
    {[debounce_interval |-> 1, flush_interval |-> 2, blacklist_patterns |-> bl] :
        bl \in {{SuffixGlob(".tmp")}, {DirGlob(WatchedDir, ".tmp"), StemGlob("file2")}}}

\* what the callback does with a batch
CallbackOutcomes == {"returns", "raises"}

\* an _emit without its try/except: the exception of the callback reaches _run
Emit_Propagates(outcome) == IF outcome = "raises" THEN "propagated" ELSE "returned"

\* RealtimeWatcher._emit: an Exception of the callback is caught and logged
Emit(outcome) == IF outcome = "raises" THEN "logged" ELSE "returned"

\* where the worker thread is after a flush_due that emitted ready with this outcome:
\* an exception that reaches _run ends the thread there
AfterFlush(ready, outcome, position) ==
    IF ready # <<>> /\ Emit(outcome) = "propagated" THEN "crashed" ELSE position

\* the callback was called once more if ready is not empty; what it did is kept
OutcomeOf(seen, ready, outcome) ==
    IF ready # <<>>
    THEN Append(seen, [raised |-> outcome = "raises", published |-> added])
    ELSE seen

WatcherInit ==
    /\ MoverAtRest
    /\ ToolsAtRest
    /\ now = 0
    /\ config \in WatcherConfigs
    /\ pending = <<>>
    /\ emitted = <<>>
    /\ added = 0
    /\ lastCall = NoCall
    /\ queue = <<>>
    /\ stop_event = FALSE
    /\ worker = "none"
    /\ caller = "new"
    /\ beforeStop = {}
    /\ outcomes = <<>>
    /\ backend = "none"

\* RealtimeWatcher.start(): the stop event is cleared, the worker thread started, the
\* backend made by the default factory and started
Start ==
    /\ caller = "new"
    /\ stop_event' = FALSE
    /\ worker' = "check"
    /\ backend' = "running"
    /\ caller' = "started"
    /\ UNCHANGED <<moverVars, toolVars, queueVars, queue, beforeStop, outcomes>>

\* RealtimeWatcher.publish(event): self._queue.put(event), by the thread of a running
\* backend or by a caller of enqueue
Publish ==
    /\ caller # "new"
    /\ added < MaxPublished
    /\ \E event \in WatcherInputs(now) :
          /\ queue' = Append(queue, [kind |-> "event", id |-> added + 1, event |-> event])
          /\ beforeStop' = IF caller = "started"
                              /\ ~IsBlacklisted(event.path, config.blacklist_patterns)
                           THEN beforeStop \cup {added + 1}
                           ELSE beforeStop
    /\ added' = added + 1
    /\ UNCHANGED <<moverVars, toolVars, now, config, pending, emitted, lastCall, stop_event, worker,
                   caller, outcomes, backend>>

\* _run: the test of the while loop
WorkerCheck ==
    /\ worker = "check"
    /\ worker' = IF stop_event THEN "final" ELSE "get"
    /\ UNCHANGED <<moverVars, toolVars, queueVars, queue, stop_event, caller, beforeStop, outcomes,
                   backend>>

\* _run: self._queue.get returned an item: the sentinel breaks the loop, a
\* blacklisted event is dropped, any other event is added and flush_due() called
WorkerGet ==
    /\ worker = "get"
    /\ queue # <<>>
    /\ queue' = Tail(queue)
    /\ LET item == Head(queue)
           p == AddOf(pending, item.event, now, config.debounce_interval, item.id)
           r == FlushOf(p, now, config.flush_interval, FALSE)
       IN IF item = Sentinel
          THEN /\ worker' = "final"
               /\ UNCHANGED <<pending, emitted, outcomes>>
          ELSE IF IsBlacklisted(item.event.path, config.blacklist_patterns)
          THEN /\ worker' = "check"
               /\ UNCHANGED <<pending, emitted, outcomes>>
          ELSE \E outcome \in CallbackOutcomes :
                  /\ worker' = AfterFlush(r.ready, outcome, "check")
                  /\ pending' = r.pending
                  /\ emitted' = EmitOf(emitted, r.ready)
                  /\ outcomes' = OutcomeOf(outcomes, r.ready, outcome)
    /\ UNCHANGED <<moverVars, toolVars, now, config, added, lastCall, stop_event, caller, beforeStop,
                   backend>>

\* _run: self._queue.get timed out on an empty queue: flush_due() and continue
WorkerTimeout ==
    /\ worker = "get"
    /\ queue = <<>>
    /\ LET r == FlushOf(pending, now, config.flush_interval, FALSE)
       IN \E outcome \in CallbackOutcomes :
             /\ worker' = AfterFlush(r.ready, outcome, "check")
             /\ pending' = r.pending
             /\ emitted' = EmitOf(emitted, r.ready)
             /\ outcomes' = OutcomeOf(outcomes, r.ready, outcome)
    /\ UNCHANGED <<moverVars, toolVars, now, config, added, lastCall, queue, stop_event, caller,
                   beforeStop, backend>>

\* _run: after the loop, flush_due(force=True); the thread ends
WorkerFinal ==
    /\ worker = "final"
    /\ LET r == FlushOf(pending, now, config.flush_interval, TRUE)
       IN \E outcome \in CallbackOutcomes :
             /\ worker' = AfterFlush(r.ready, outcome, "ended")
             /\ pending' = r.pending
             /\ emitted' = EmitOf(emitted, r.ready)
             /\ outcomes' = OutcomeOf(outcomes, r.ready, outcome)
    /\ UNCHANGED <<moverVars, toolVars, now, config, added, lastCall, queue, stop_event, caller,
                   beforeStop, backend>>

\* stop(): self._stop_event.set()
StopSet ==
    /\ caller = "started"
    /\ stop_event' = TRUE
    /\ caller' = "stop_set"
    /\ UNCHANGED <<moverVars, toolVars, queueVars, queue, worker, beforeStop, outcomes, backend>>

\* stop(): self._queue.put(_Sentinel)
StopPut ==
    /\ caller = "stop_set"
    /\ queue' = Append(queue, Sentinel)
    /\ caller' = "stop_put"
    /\ UNCHANGED <<moverVars, toolVars, queueVars, stop_event, worker, beforeStop, outcomes, backend>>

\* stop(): self._backend.stop() and self._backend = None
StopBackend ==
    /\ caller = "stop_put"
    /\ backend' = "halted"
    /\ caller' = "stop_halted"
    /\ UNCHANGED <<moverVars, toolVars, queueVars, queue, stop_event, worker, beforeStop, outcomes>>

\* stop(): worker.join() returns once the worker thread has ended, normally or with
\* an exception; stop() returns
StopJoin ==
    /\ caller = "stop_halted"
    /\ worker \in {"ended", "crashed"}
    /\ caller' = "stopped"
    /\ UNCHANGED <<moverVars, toolVars, queueVars, queue, stop_event, worker, beforeStop, outcomes,
                   backend>>

WatcherNext ==
    \/ Start
    \/ Publish
    \/ WorkerCheck
    \/ WorkerGet
    \/ WorkerTimeout
    \/ WorkerFinal
    \/ StopSet
    \/ StopPut
    \/ StopBackend
    \/ StopJoin
    \/ Tick

WatcherSpec == WatcherInit /\ [][WatcherNext]_vars

\* ------------------------------------------------- the filter at work
watcherVars == <<queueVars, threadVars>>

FilterInit ==
    /\ MoverAtRest
    /\ WatcherAtRest
    /\ ClassifierAtRest
    /\ PlannerAtRest
    /\ BackendAtRest
    /\ DuplicatesAtRest
    /\ sysfilter \in FilterConfigs
    /\ lastDecision = NoDecision
    /\ filtered = NoBatch

\* the filter is applied once: self.evaluate(candidate)
EvaluateCandidate ==
    /\ lastDecision = NoDecision
    /\ ~filtered.called
    /\ \E candidate \in FilterInputs : lastDecision' = Evaluate(sysfilter, candidate)
    /\ UNCHANGED <<moverVars, watcherVars, classifierVars, plannerVars, backendVars, duplicateVars, sysfilter, filtered>>

\* the filter is applied once: list(self.filter_candidates(candidates))
FilterCandidates ==
    /\ lastDecision = NoDecision
    /\ ~filtered.called
    /\ \E batch \in FilterBatches :
          filtered' = [input |-> batch, output |-> FilterCandidatesOf(sysfilter, batch, 1),
                       called |-> TRUE]
    /\ UNCHANGED <<moverVars, watcherVars, classifierVars, plannerVars, backendVars, duplicateVars, sysfilter, lastDecision>>

FilterNext ==
    \/ EvaluateCandidate
    \/ FilterCandidates

FilterSpec == FilterInit /\ [][FilterNext]_vars

\* ------------------------------------------------- the classifier at work
otherVars == <<moverVars, watcherVars, filterVars, plannerVars, backendVars, duplicateVars>>

ClassifierInit ==
    /\ MoverAtRest
    /\ WatcherAtRest
    /\ FilterAtRest
    /\ PlannerAtRest
    /\ BackendAtRest
    /\ DuplicatesAtRest
    /\ engine \in Engines
    /\ extension_cache = <<>>
    /\ lastResult = NoResult
    /\ evicted = FALSE

\* engine.classify(candidate)
ClassifyCandidate ==
    /\ \E candidate \in ClassifierInputs :
          LET c == Classify(engine, extension_cache, candidate)
          IN /\ lastResult' = [candidate |-> candidate, result |-> c.result, hit |-> c.hit]
             /\ extension_cache' = c.cache
             /\ evicted' = (evicted \/ c.evicted)
    /\ UNCHANGED <<otherVars, engine>>

ClassifierNext == ClassifyCandidate

ClassifierSpec == ClassifierInit /\ [][ClassifierNext]_vars

\* ------------------------------------------- the planner with its tools
\* The file of source directory i is SrcPath(i) for the mover and the path
\* /src/<i>/<name> for the scanner, the filter and the classifier. The files of
\* one run bear the same name, so that they meet in the destination directories.
DirDigits == <<"1", "2", "3", "4", "5", "6", "7", "8", "9">>

ScannedPath(i, name) == <<<<"/">>, <<"s", "r", "c">>, <<DirDigits[i]>>, name>>

\* the files the source directories hold: one name, sizes that differ
SourceLayouts ==
    {[i \in 1 .. MaxItems |-> FileCandidate(ScannedPath(i, name), sizes[(i % 3) + 1])] :
        name \in {<<"a", ".", "p", "d", "f">>, <<"n", "o", "t", "e", "s", "_", "r", "e", "p", ".", "t", "x", "t">>, <<"r", "e", "p", "_", "i", "n", "v", "o", "i", "c", "e", ".", "j", "p", "g">>, <<".", "h", "i", "d", "d", "e", "n">>},
        sizes \in {<<512, 512, 512>>, <<0, 2048, 512>>, <<2048, 512, 2048>>}}

\* rules["destinations"]: the sub-directory of a category, by its number
Destinations ==
    [category \in {"documents", "text", "small", "finance", "pdf_mime"} |-> 1]

\* the engines a Planner is given: rule families with or without a destinations map;
\* the hash seed matters to the keyword family alone
PlannerEngines ==
    {ClassificationEngine([k \in families \cup mapped |->
                              IF k = "destinations" THEN Destinations ELSE AllRules[k]],
                          seed) :
        families \in {{"extension"}, {"keyword", "size"},
                      {"extension", "keyword", "size", "mime", "magic"}},
        mapped \in {{}, {"destinations"}},
        seed \in {"forward"}}
    \cup {ClassificationEngine([k \in {"keyword", "size", "destinations"} |->
                                   IF k = "destinations" THEN Destinations ELSE AllRules[k]],
                               "backward")}

\* the sub_dir of _resolve_destination: destinations.get(category, default_destination),
\* directory 2 standing for "uncategorized"
SubDir(rules, category) ==
    IF "destinations" \in DOMAIN rules /\ category \in DOMAIN rules.destinations
    THEN rules.destinations[category]
    ELSE 2

\* FileScanner._should_include with the default FileScanOptions
ShouldInclude(path) == ~StartsWith(NameOf(path), <<".">>)

\* FileScanner.scan(sources): the candidates of the source directories, in order
RECURSIVE ScanFrom(_, _, _)
ScanFrom(f, files, i) ==
    IF i > Len(files) THEN <<>>
    ELSE (IF Exists(f, SrcPath(i)) /\ ShouldInclude(files[i].path)
          THEN <<[index |-> i, candidate |-> files[i]]>>
          ELSE <<>>) \o ScanFrom(f, files, i + 1)

\* what the ClassificationResult of a skipped candidate would be: classify is not called
NotClassified == ClassificationResult("", 0, <<>>)

\* the filter and the classifier in the for loop of build_plan: the decision of each
\* candidate and, unless the filter skips it, its classification; the cache is the
\* engine's, carried from one classify to the next
RECURSIVE ClassifyLoop(_, _, _, _, _, _)
ClassifyLoop(self_filter, eng, scanned, k, cache, acc) ==
    IF k > Len(scanned) THEN [decisions |-> acc, cache |-> cache]
    ELSE LET Rest(decision, c) ==
                 IF decision.should_skip
                 THEN ClassifyLoop(self_filter, eng, scanned, k + 1, cache,
                                   Append(acc, [index |-> scanned[k].index,
                                                decision |-> decision,
                                                classification |-> NotClassified]))
                 ELSE ClassifyLoop(self_filter, eng, scanned, k + 1, c.cache,
                                   Append(acc, [index |-> scanned[k].index,
                                                decision |-> decision,
                                                classification |-> c.result]))
         IN CHOOSE done \in {Rest(decision, c) :
                                decision \in {Evaluate(self_filter, scanned[k].candidate)},
                                c \in {Classify(eng, cache, scanned[k].candidate)}} : TRUE

\* the decisions of build_plan as the plan loop takes them: the candidate by its
\* source directory, the category by its sub-directory
PlannerDecisions(eng, looped) ==
    [k \in 1 .. Len(looped) |->
        [path |-> SrcPath(looped[k].index),
         size |-> looped[k].decision.candidate.size,
         category |-> SubDir(eng.rules, looped[k].classification.category),
         should_skip |-> looped[k].decision.should_skip,
         reason |-> looped[k].decision.reason,
         flags |-> looped[k].decision.flags]]

\* build_plan of a Planner with its scanner, filter and classifier: the Plan, the
\* classification behind each decision, and the engine's cache afterwards
BuildPlanWithTools(f, dv, strategy, self_filter, eng, cache, files) ==
    LET Assemble(looped, built) ==
            [plan |-> [items |-> built.items, skipped |-> built.skipped,
                       summary |-> built.summary,
                       classified |-> [k \in 1 .. Len(looped.decisions) |->
                                          looped.decisions[k].classification]],
             decisions |-> PlannerDecisions(eng, looped.decisions),
             cache |-> looped.cache]
    IN CHOOSE b \in UNION {{Assemble(looped, built) :
                               built \in {BuildPlanOf(f, dv, strategy,
                                                      PlannerDecisions(eng, looped.decisions))}} :
                              looped \in {ClassifyLoop(self_filter, eng, ScanFrom(f, files, 1),
                                                       1, cache, <<>>)}} : TRUE

PlannerInit ==
    /\ MoverInit({[i \in 1 .. MaxItems |-> DestDevice], [i \in 1 .. MaxItems |-> i % 2]},
                 InitialDestinations)
    /\ WatcherAtRest
    /\ FilterAtRest
    /\ engine \in PlannerEngines
    /\ extension_cache = <<>>
    /\ lastResult = NoResult
    /\ evicted = FALSE
    /\ sourceFiles \in SourceLayouts
    /\ replan = NoPlan
    /\ BackendAtRest
    /\ DuplicatesAtRest

frame_planner == <<moverStrategy, devOf, frame_run, fs, dirs, origin, items, rollbackFile,
                   rollbackScript, restored, preFs, step, local, watcherVars, filterVars,
                   engine, lastResult, evicted, sourceFiles, backendVars, duplicateVars>>

\* Planner(classifier=engine, conflict_strategy=...).build_plan(sources, destination_root)
FirstBuildPlan ==
    /\ pc = "start"
    /\ \E strategy \in Strategies :
          \E b \in {BuildPlanWithTools(fs, devOf, strategy, sysfilter, engine,
                                       extension_cache, sourceFiles)} :
             /\ plannerStrategy' = strategy
             /\ candidates' = b.decisions
             /\ plan' = b.plan
             /\ extension_cache' = b.cache
    /\ pc' = "planned"
    /\ UNCHANGED <<frame_planner, replan, extBudget>>

\* the same Planner's build_plan once more, nothing having run in between
SecondBuildPlan ==
    /\ pc = "planned"
    /\ \E b \in {BuildPlanWithTools(fs, devOf, plannerStrategy, sysfilter, engine,
                                    extension_cache, sourceFiles)} :
          /\ replan' = b.plan
          /\ extension_cache' = b.cache
    /\ pc' = "replanned"
    /\ UNCHANGED <<frame_planner, plannerStrategy, candidates, plan, extBudget>>

\* a source file is removed by another process before the first plan is built
SourceVanishes ==
    /\ pc = "start"
    /\ extBudget > 0
    /\ \E i \in 1 .. MaxItems : Exists(fs, SrcPath(i)) /\ fs' = Remove(fs, SrcPath(i))
    /\ extBudget' = extBudget - 1
    /\ UNCHANGED <<candidates, plannerStrategy, moverStrategy, devOf, frame_run, dirs, pc,
                   origin, plan, items, rollbackFile, rollbackScript, restored, preFs, aside>>

PlannerNext ==
    \/ FirstBuildPlan
    \/ SecondBuildPlan
    \/ SourceVanishes

PlannerSpec == PlannerInit /\ [][PlannerNext]_vars

\* --------------------------------------------- the watcher left running
\* publish(event) for an event of a blacklisted path, as a backend does for as long
\* as such files change; the queue holds MaxPublished items at most
PublishBlacklisted ==
    /\ caller = "started"
    /\ Len(queue) < MaxPublished
    /\ \E event \in WatcherInputs(now) :
          /\ IsBlacklisted(event.path, config.blacklist_patterns)
          /\ queue' = Append(queue, [kind |-> "event", id |-> 0, event |-> event])
    /\ UNCHANGED <<moverVars, toolVars, queueVars, stop_event, worker, caller, beforeStop,
                   outcomes, backend>>

\* the steps of the worker thread while nobody calls stop()
WorkerStep ==
    \/ WorkerCheck
    \/ WorkerGet
    \/ WorkerTimeout

RunningNext ==
    \/ Start
    \/ Publish
    \/ PublishBlacklisted
    \/ WorkerStep
    \/ Tick

\* the worker thread is scheduled again and again, and time passes
RunningSpec ==
    /\ WatcherInit
    /\ [][RunningNext]_vars
    /\ WF_vars(WorkerStep)
    /\ WF_vars(Tick)

\* ------------------------------------------- start() and stop(), repeated
MaxCalls == 3

\* the positions of the callers at which nobody holds self._lock
LockFree == {"new", "started", "stopped"}

\* Thread.is_alive() of self._worker
WorkerAlive == worker \in {"check", "get", "final"}

\* start(), whole under the lock: nothing when the worker is alive; otherwise the
\* stop event is cleared, a worker thread started, a backend made and started and
\* self._backend set to it, whatever it referred to
StartCall ==
    /\ caller \in LockFree
    /\ calls < MaxCalls
    /\ calls' = calls + 1
    /\ caller' = "started"
    /\ IF WorkerAlive
       THEN UNCHANGED <<stop_event, worker, backend, orphans>>
       ELSE /\ stop_event' = FALSE
            /\ worker' = "check"
            /\ backend' = "running"
            /\ orphans' = IF backend = "running" THEN orphans + 1 ELSE orphans
    /\ UNCHANGED <<moverVars, filterVars, classifierVars, plannerVars, duplicateVars, watched, snapshot, polls,
                   changes, queueVars, queue, beforeStop, outcomes>>

\* stop() takes the lock: self._stop_event.set()
StopCallSet ==
    /\ caller \in LockFree
    /\ calls < MaxCalls
    /\ calls' = calls + 1
    /\ stop_event' = TRUE
    /\ caller' = "stop_set"
    /\ UNCHANGED <<moverVars, filterVars, classifierVars, plannerVars, duplicateVars, watched, snapshot, polls,
                   changes, orphans, queueVars, queue, worker, beforeStop, outcomes, backend>>

\* stop(): "if self._backend:" self._backend.stop() and self._backend = None
StopCallBackend ==
    /\ caller = "stop_put"
    /\ backend' = IF backend = "running" THEN "halted" ELSE backend
    /\ caller' = "stop_halted"
    /\ UNCHANGED <<moverVars, toolVars, queueVars, queue, stop_event, worker, beforeStop, outcomes>>

\* stop(): "if worker and worker.is_alive(): worker.join()", then self._worker = None
\* and the lock is released
StopCallJoin ==
    /\ caller = "stop_halted"
    /\ ~WorkerAlive
    /\ worker' = "none"
    /\ caller' = "stopped"
    /\ UNCHANGED <<moverVars, toolVars, queueVars, queue, stop_event, beforeStop, outcomes,
                   backend>>

RestartNext ==
    \/ StartCall
    \/ StopCallSet
    \/ StopPut
    \/ StopCallBackend
    \/ StopCallJoin
    \/ Publish
    \/ WorkerCheck
    \/ WorkerGet
    \/ WorkerTimeout
    \/ WorkerFinal
    \/ Tick

RestartSpec == WatcherInit /\ [][RestartNext]_vars

\* ------------------------------------------------------- _PollingBackend
MaxPolls == 2
MaxChanges == 2

\* the files that come and go below the watched root
WatchedFiles == {File1, File2}

\* what stat() can give for a watched file
FileStats == {[st_mtime |-> m, st_size |-> z] : m \in {1, 2}, z \in {10, 20}}

\* _build_snapshot: path -> (st_mtime, st_size) for the files below the root
BuildSnapshot(files) ==
    [path \in DOMAIN files |-> <<files[path].st_mtime, files[path].st_size>>]

\* _scan: current_paths - previous_paths
CreatedPaths(previous, current) == (DOMAIN current) \ (DOMAIN previous)

\* _scan: previous_paths - current_paths
DeletedPaths(previous, current) == (DOMAIN previous) \ (DOMAIN current)

\* a comparison that looks at the modification time alone
ModifiedPaths_MtimeOnly(previous, current) ==
    {path \in (DOMAIN previous) \cap (DOMAIN current) : previous[path][1] # current[path][1]}

\* _scan: the paths of previous_paths & current_paths whose mtime or size differs
ModifiedPaths(previous, current) ==
    {path \in (DOMAIN previous) \cap (DOMAIN current) :
        previous[path][1] # current[path][1] \/ previous[path][2] # current[path][2]}

\* the orders in which a for loop can visit a set
Orderings(S) ==
    {order \in [1 .. Cardinality(S) -> S] :
        \A i, j \in 1 .. Cardinality(S) : i # j => order[i] # order[j]}

\* self._watcher.publish(FileSystemEvent(path=path, event_type=...)) for each path
PublishedBy(paths, event_type, t, first_id) ==
    [k \in 1 .. Len(paths) |->
        [kind |-> "event", id |-> first_id + k,
         event |-> FileSystemEvent(paths[k], event_type, t, FALSE, None, EmptyMap)]]

\* the polling backend was started by start(): the first snapshot is taken
PollInit ==
    /\ MoverAtRest
    /\ FilterAtRest
    /\ ClassifierAtRest
    /\ PlannerAtRest
    /\ now = 0
    /\ config \in WatcherConfigs
    /\ pending = <<>>
    /\ emitted = <<>>
    /\ added = 0
    /\ lastCall = NoCall
    /\ queue = <<>>
    /\ stop_event = FALSE
    /\ worker = "check"
    /\ caller = "started"
    /\ beforeStop = {}
    /\ outcomes = <<>>
    /\ backend = "running"
    /\ \E present \in SUBSET WatchedFiles : watched \in [present -> FileStats]
    /\ snapshot = BuildSnapshot(watched)
    /\ polls = 0
    /\ changes = 0
    /\ orphans = 0
    /\ calls = 0
    /\ DuplicatesAtRest

frame_poll == <<moverVars, filterVars, classifierVars, plannerVars, duplicateVars, now, config, pending,
                emitted, lastCall, stop_event,
                worker, caller, outcomes, backend, orphans, calls>>

\* _PollingBackend._run: the wait timed out and _scan runs
PollingScan ==
    /\ backend = "running"
    /\ polls < MaxPolls
    /\ \E created \in Orderings(CreatedPaths(snapshot, BuildSnapshot(watched))),
          deleted \in Orderings(DeletedPaths(snapshot, BuildSnapshot(watched))),
          modified \in Orderings(ModifiedPaths(snapshot, BuildSnapshot(watched))) :
          LET c == PublishedBy(created, "CREATED", now, added)
              d == PublishedBy(deleted, "DELETED", now, added + Len(c))
              m == PublishedBy(modified, "MODIFIED", now, added + Len(c) + Len(d))
          IN /\ queue' = queue \o c \o d \o m
             /\ added' = added + Len(c) + Len(d) + Len(m)
             /\ beforeStop' = beforeStop \cup
                    {item.id : item \in {i \in {(c \o d \o m)[k] : k \in 1 .. Len(c \o d \o m)} :
                                            ~IsBlacklisted(i.event.path, config.blacklist_patterns)}}
    /\ snapshot' = BuildSnapshot(watched)
    /\ polls' = polls + 1
    /\ UNCHANGED <<moverVars, filterVars, classifierVars, plannerVars, duplicateVars, now, config, pending,
                   emitted, lastCall, stop_event, worker, caller, outcomes, backend, watched,
                   changes, orphans, calls>>

\* a file appears below the watched root
FileAppears ==
    /\ changes < MaxChanges
    /\ \E path \in WatchedFiles \ DOMAIN watched, stat \in FileStats :
          watched' = [p \in (DOMAIN watched) \cup {path} |->
                         IF p = path THEN stat ELSE watched[p]]
    /\ changes' = changes + 1
    /\ UNCHANGED <<frame_poll, added, queue, beforeStop, snapshot, polls>>

\* a watched file is removed
FileDisappears ==
    /\ changes < MaxChanges
    /\ \E path \in DOMAIN watched :
          watched' = [p \in (DOMAIN watched) \ {path} |-> watched[p]]
    /\ changes' = changes + 1
    /\ UNCHANGED <<frame_poll, added, queue, beforeStop, snapshot, polls>>

\* a watched file is written: its mtime, its size or both change
FileChanges ==
    /\ changes < MaxChanges
    /\ \E path \in DOMAIN watched :
          \E stat \in FileStats \ {watched[path]} :
             watched' = [watched EXCEPT ![path] = stat]
    /\ changes' = changes + 1
    /\ UNCHANGED <<frame_poll, added, queue, beforeStop, snapshot, polls>>

PollNext ==
    \/ PollingScan
    \/ FileAppears
    \/ FileDisappears
    \/ FileChanges

PollSpec == PollInit /\ [][PollNext]_vars

\* ------------------------------------------------- the rollback command
MaxEntries == 2

\* the entry of rollback.json for file i, moved from its source directory to the
\* destination tree, with the digest of its content or with another digest
RestoreEntry(i, recorded) ==
    [original_path |-> SrcPath(i), backup_path |-> DstPath(i, <<>>),
     sha256 |-> Sha256(recorded)]

\* the lists of entries: some of the files, each at most once, in any order
EntryLists ==
    {entries \in UNION {[1 .. n -> UNION {{RestoreEntry(i, i), RestoreEntry(i, 0)} :
                                              i \in 1 .. MaxEntries}] :
                           n \in 0 .. MaxEntries} :
        \A j, k \in 1 .. Len(entries) :
            j # k => entries[j].backup_path # entries[k].backup_path}

\* the files were moved to the destination tree, rollback.json lists some of them,
\* and some of the source directories are gone
RestoreInit ==
    /\ WatcherAtRest
    /\ ToolsAtRest
    /\ candidates = <<>>
    /\ plannerStrategy = "none"
    /\ moverStrategy = "none"
    /\ devOf = [i \in 1 .. MaxItems |-> DestDevice]
    /\ fs = [p \in {DstPath(i, <<>>) : i \in 1 .. MaxEntries} |-> p.sub]
    /\ \E kept \in SUBSET {Parent(SrcPath(i)) : i \in 1 .. MaxEntries} :
          dirs = {Parent(DstPath(i, <<>>)) : i \in 1 .. MaxEntries} \cup kept
    /\ pc = "start"
    /\ origin = "none"
    /\ plan = [items |-> <<>>, skipped |-> <<>>, summary |-> <<>>]
    /\ items = <<>>
    /\ idx = 1
    /\ rollback_steps = <<>>
    /\ processed = 0
    /\ succeeded = 0
    /\ skipped = 0
    /\ failed = 0
    /\ bytes_processed = 0
    /\ errors = <<>>
    /\ \E entries \in EntryLists : rollbackFile = [kind |-> "object", val |-> entries]
    /\ rollbackScript = <<>>
    /\ restored = <<>>
    /\ ev = NoEvent
    /\ attempts = <<>>
    /\ preFs = fs
    /\ extBudget = MaxExternal
    /\ step = "idle"
    /\ local = NoLocals

frame_restore == <<frame_setup, moverStrategy, frame_run, origin, plan, items, rollbackFile,
                   rollbackScript, preFs, aside>>

\* _handle_rollback: load_entries(args.rollback_file), then
\* restore(entries, dry_run=args.dry_run, target_filter=None)
RollbackCommand ==
    /\ pc = "start"
    /\ \E dry_run \in BOOLEAN :
          LET loaded == LoadEntries(rollbackFile)
              r == Restore(fs, dirs, loaded.entries, dry_run)
          IN /\ fs' = r.fs
             /\ dirs' = r.dirs
             /\ restored' = r.restored
             /\ pc' = IF dry_run THEN "dry_run_done" ELSE "rollback_done"
    /\ UNCHANGED <<frame_restore, extBudget>>

\* another process removes a backup file before the command runs
BackupLost ==
    /\ pc = "start"
    /\ extBudget > 0
    /\ \E p \in DOMAIN fs : fs' = Remove(fs, p)
    /\ extBudget' = extBudget - 1
    /\ UNCHANGED <<frame_restore, dirs, restored, pc>>

\* a backup file is damaged on disk before the command runs
BackupDamaged ==
    /\ pc = "start"
    /\ extBudget > 0
    /\ \E p \in DOMAIN fs : fs[p] > 0 /\ fs' = Put(fs, p, Damaged(fs[p]))
    /\ extBudget' = extBudget - 1
    /\ UNCHANGED <<frame_restore, dirs, restored, pc>>

RestoreNext ==
    \/ RollbackCommand
    \/ BackupLost
    \/ BackupDamaged

RestoreSpec == RestoreInit /\ [][RestoreNext]_vars

\* ------------------------------------------------------------------ claims
\* the loop body of execute_plan has just run for item idx
ItemStep == idx' = idx + 1

\* C1: after execute_plan, replaying the rollback file it wrote (load_entries on that
\* file, then restore) leaves every succeeded item's file at its original source path
\* with the content it had there before the run.
C1_RoundTrip ==
    pc \in {"rollback_done", "rollback_raised"} =>
        \A k \in 1 .. Len(rollback_steps) :
            /\ Exists(fs, rollback_steps[k].destination)
            /\ fs[rollback_steps[k].destination] = preFs[rollback_steps[k].destination]

\* C2: at every point during execute_plan the rollback file on disk already holds the
\* step of every item that has succeeded so far.
C2_LogPersistedPerItem ==
    pc = "exec" =>
        \A k \in 1 .. Len(rollback_steps) :
            /\ rollbackFile.kind = "list"
            /\ \E j \in 1 .. Len(rollbackFile.val) :
                  /\ rollbackFile.val[j].from = rollback_steps[k].source
                  /\ rollbackFile.val[j].to = rollback_steps[k].destination

\* C3: no two items of a Plan returned by build_plan have the same destination path.
C3_UniqueDestinations ==
    \A i, j \in 1 .. Len(plan.items) :
        i # j => plan.items[i].destination # plan.items[j].destination

\* the planner and the mover both use the rename strategy on the planner's plan
RenameRun == origin = "planner" /\ plannerStrategy = "rename" /\ moverStrategy = "rename"

\* the files of destination sub-directory c
FilesIn(f, c) == {p \in DOMAIN f : p.root = "dst" /\ p.sub = c}

C5_VerificationFailure ==
    [][(ItemStep /\ ev'.mismatch) =>
          /\ failed' = failed + 1
          /\ succeeded' = succeeded
          /\ skipped' = skipped
          /\ Len(errors') = Len(errors) + 1
          /\ errors'[Len(errors')].source = items[idx].source
          /\ fs' = fs
          /\ ~Exists(fs', TempPath(items[idx].destination))
          /\ Exists(fs', items[idx].source)
          /\ items'[idx].hash_digest = <<>>
          /\ pc' = "exec"]_vars

\* C5 witness: a copy failed verification and another item is still to come
C5_Witness ==
    /\ pc = "exec"
    /\ ev.mismatch
    /\ failed = 1
    /\ idx <= Len(items)
    /\ items[ev.item].operation = "copy"

\* C6: under the rename and skip strategies an executed item never changes or removes
\* a file of the destination; on an occupied destination skip counts the item as
\* skipped and touches nothing, rename puts the file at a path that was free.
C6_NoOverwriteAtExecution ==
    [][(ItemStep /\ moverStrategy \in {"rename", "skip"}) =>
          /\ \A p \in DOMAIN fs :
                (p.root = "dst" /\ ~p.tmp) => Exists(fs', p) /\ fs'[p] = fs[p]
          /\ Exists(fs, items[idx].destination) =>
                IF moverStrategy = "skip"
                THEN /\ skipped' = skipped + 1
                     /\ fs' = fs
                     /\ pc' = "exec"
                ELSE succeeded' = succeeded + 1 =>
                        LET s == rollback_steps'[Len(rollback_steps')]
                        IN /\ ~Exists(fs, s.source)
                           /\ s.source.chain # items[idx].destination.chain
                           /\ fs'[s.source] = fs[items[idx].source]]_vars

\* C6 witness: a file appeared at the destination after planning and the item was
\* diverted by the rename strategy
C6_Witness ==
    /\ ev.item > 0
    /\ ev.occupied
    /\ ev.exc = "none"
    /\ moverStrategy = "rename"
    /\ origin = "planner"
    /\ ~Exists(preFs, items[ev.item].destination)
    /\ Exists(fs, items[ev.item].destination)
    /\ fs[items[ev.item].destination] = 0

\* C7: an item of the planner's plan with conflict = true, executed under the skip
\* strategy, is counted as skipped and nothing on the filesystem changes.
C7_ConflictItemSkippedWithoutIO ==
    [][(ItemStep /\ origin = "planner" /\ moverStrategy = "skip" /\ items[idx].conflict) =>
          /\ skipped' = skipped + 1
          /\ fs' = fs
          /\ dirs' = dirs]_vars

\* C8: a step is appended exactly when the item succeeded, so the steps are in plan
\* order, one per succeeded item; its from is where the item's content now lies, its
\* to is the item's source, its operation is rename for a rename and restore for a
\* copy; and the file written at the end lists these steps in this order.
C8_RollbackLog ==
    /\ [][ItemStep =>
            IF succeeded' = succeeded + 1
            THEN LET s == rollback_steps'[Len(rollback_steps')]
                 IN /\ rollback_steps' = Append(rollback_steps, s)
                    /\ s.destination = items[idx].source
                    /\ Exists(fs', s.source)
                    /\ fs'[s.source] = fs[items[idx].source]
                    /\ s.operation = IF items[idx].operation = "rename"
                                     THEN "rename" ELSE "restore"
            ELSE rollback_steps' = rollback_steps]_vars
    /\ [](pc = "done" =>
            /\ rollbackFile.kind = "list"
            /\ Len(rollbackFile.val) = Len(rollback_steps)
            /\ Len(rollbackFile.val) = succeeded
            /\ \A k \in 1 .. Len(rollback_steps) :
                  /\ rollbackFile.val[k].operation = rollback_steps[k].operation
                  /\ rollbackFile.val[k].from = rollback_steps[k].source
                  /\ rollbackFile.val[k].to = rollback_steps[k].destination)

\* C8 witness: a log with a rename and a restore, of a run in which an item was
\* diverted at execution time and another one did not succeed
C8_Witness ==
    /\ pc = "done"
    /\ Len(rollbackFile.val) = 2
    /\ rollbackFile.val[1].operation = "rename"
    /\ rollbackFile.val[2].operation = "restore"
    /\ skipped + failed >= 1
    /\ \E k \in 1 .. Len(items) :
          /\ items[k].source = rollbackFile.val[2].to
          /\ items[k].destination # rollbackFile.val[2].from

\* C9: an item that fails is counted and its error recorded, the loop goes on with the
\* next item, execute_plan never raises, and when it returns every item was attempted.
C9_FailureDoesNotAbort ==
    /\ [][(ItemStep /\ ~ev'.flagSkip /\ ev'.exc \notin {"none", "ConflictError"}) =>
            /\ pc' = "exec"
            /\ failed' = failed + 1
            /\ errors' = Append(errors, errors'[Len(errors')])
            /\ errors'[Len(errors')].source = items[idx].source]_vars
    /\ [](pc # "raised")
    /\ [](pc = "done" => \A k \in 1 .. Len(items) : attempts[k] >= 1)

\* C9 witness: the first item failed, a later one succeeded, and the run returned
C9_Witness ==
    /\ pc = "done"
    /\ failed >= 1
    /\ errors[1].source = items[1].source
    /\ succeeded >= 1
    /\ ev.item = Len(items)
    /\ ev.exc = "none"

\* C10: every item enters the loop body at most once, those before the loop position
\* exactly once; processed is their number and equals succeeded + skipped + failed,
\* there is one error string per failed item, and at the end processed is the number
\* of items.
C10_EachItemOnce ==
    /\ \A k \in 1 .. Len(attempts) : attempts[k] = IF k < idx THEN 1 ELSE 0
    /\ processed = idx - 1
    /\ processed = succeeded + skipped + failed
    /\ Len(errors) = failed
    /\ pc \in {"done", "rollback_raised", "rollback_done"} => processed = Len(items)

\* C10 witness: a finished run with a succeeded, a skipped and a failed item
C10_Witness ==
    /\ pc = "done"
    /\ succeeded >= 1
    /\ skipped >= 1
    /\ failed >= 1

\* C11: after the loop body ran for an item, the item's hash_digest is set if and only
\* if its operation is copy and the item was counted as succeeded; renamed, skipped
\* and failed items (a copy whose source deletion failed included) have no digest.
C11_DigestIffCopySucceeded ==
    [][ItemStep =>
          ((items'[idx].hash_digest # <<>>)
              <=> (items[idx].operation = "copy" /\ succeeded' = succeeded + 1))]_vars

\* the loop body has just run for a rename item that reached os.replace with its
\* source on another device than its final destination
CrossDeviceRenameStep ==
    /\ ItemStep
    /\ items[idx].operation = "rename"
    /\ ~SkipsOnFlag(items[idx], moverStrategy)
    /\ Exists(fs, items[idx].source)
    /\ ResolveAtExecution(fs, items[idx].destination, moverStrategy).exc = "none"
    /\ DeviceOf(devOf, items[idx].source)
          # DeviceOf(devOf, ResolveAtExecution(fs, items[idx].destination,
                                               moverStrategy).destination)

\* C12: a rename item whose source and final destination are on different devices
\* at execution time falls back to copy + delete and still succeeds: the item is
\* counted as succeeded, its content is at the final destination and the source is
\* gone.
C12_CrossDeviceRenameFallsBack ==
    [][CrossDeviceRenameStep =>
          LET item == items[idx]
              final == ResolveAtExecution(fs, item.destination, moverStrategy).destination
          IN /\ succeeded' = succeeded + 1
             /\ failed' = failed
             /\ Exists(fs', final)
             /\ fs'[final] = fs[item.source]
             /\ ~Exists(fs', item.source)]_vars

\* C13: a rename item whose source and final destination are on different devices
\* at execution time fails alone: it is counted as failed with one error recorded for
\* its source, the loop goes on, no file is created, removed or changed (the source
\* stays, nothing appears at the destination, no copy is made), and the item gets
\* neither a digest nor a rollback step.
C13_CrossDeviceRenameFails ==
    [][CrossDeviceRenameStep =>
          /\ failed' = failed + 1
          /\ succeeded' = succeeded
          /\ skipped' = skipped
          /\ errors' = Append(errors, [source |-> items[idx].source, exc |-> "OSError"])
          /\ pc' = "exec"
          /\ fs' = fs
          /\ items' = items
          /\ rollback_steps' = rollback_steps]_vars

\* C13 witness: the last executed item is a rename that os.replace refused across
\* devices; it is counted as failed and its source is still there
C13_Witness ==
    /\ pc = "exec"
    /\ ev.item >= 1
    /\ ev.exc = "OSError"
    /\ items[ev.item].operation = "rename"
    /\ DeviceOf(devOf, items[ev.item].source) # DestDevice
    /\ Exists(fs, items[ev.item].source)
    /\ failed >= 1

\* C14: while a copy item is executed, whatever step it is at and whatever step
\* failed, the complete content of the file is at the source path or at the final
\* destination path; the source is missing only once the call has returned, with
\* matching digests, the content published at the final destination and no
\* temporary file left.
C14_SourceDeletedAfterPublish ==
    step # "idle" =>
        LET source == items[1].source
            content == preFs[source]
            AtSource == Exists(fs, source) /\ fs[source] = content
            AtFinal == Exists(fs, local.destination) /\ fs[local.destination] = content
        IN /\ AtSource \/ AtFinal
           /\ ~Exists(fs, source) =>
                 /\ step = "returned"
                 /\ AtFinal
                 /\ local.source_digest = Sha256(content)
                 /\ local.dest_digest = local.source_digest
                 /\ ~Exists(fs, TempPath(local.destination))

\* C14 witness: a copy item whose destination was taken has returned; the source is
\* gone and the content is at the free name the mover chose
C14_Witness ==
    /\ step = "returned"
    /\ ~Exists(fs, items[1].source)
    /\ local.destination # items[1].destination
    /\ fs[local.destination] = preFs[items[1].source]

\* ids of the events a queued or emitted event was built from
IdsOf(folded) == {folded[j][1] : j \in 1 .. Len(folded)}

\* the types of the events a queued or emitted event was built from, in arrival order
TypesOf(folded) == [j \in 1 .. Len(folded) |-> folded[j][2]]

\* the events that were passed to the callback, with what they were built from
Delivered == UNION {{emitted[b][i] : i \in 1 .. Len(emitted[b])} : b \in 1 .. Len(emitted)}

\* C15: when stop() has returned, every non-blacklisted event that was published to
\* the started watcher before stop() was called has been passed to the callback,
\* itself or merged into the event of its path.
C15_NoEventDroppedOnShutdown ==
    caller = "stopped" =>
        \A id \in beforeStop : \E x \in Delivered : id \in IdsOf(x.folded)

\* the events that are pending or were passed to the callback, with what they were
\* built from
Accounted ==
    {[event |-> pending[i].event, folded |-> pending[i].folded] : i \in 1 .. Len(pending)}
        \cup Delivered

\* C16: every event accepted by add is emitted, merged into an emitted event, or
\* still part of the pending event of its path: no add discards a pending event that
\* was not emitted, whether it comes within debounce_interval or after it.
C16_NoPendingEventDiscarded ==
    \A id \in 1 .. added : \E x \in Accounted : id \in IdsOf(x.folded)

\* the event was built from a CREATED followed by MODIFIED events only (at least one)
CreatedThenModified(folded) ==
    /\ Len(folded) >= 2
    /\ folded[1][2] = "CREATED"
    /\ \A j \in 2 .. Len(folded) : folded[j][2] = "MODIFIED"

\* C17: when the events folded into a path's event up to the flush are a CREATED and
\* then MODIFIED events, each merged within the debounce window of the previous one,
\* the event is CREATED, pending and emitted, and the batch that carries it holds no
\* other event for that path.
C17_CreatedThenModifiedIsCreated ==
    /\ \A x \in Accounted :
          CreatedThenModified(x.folded) => x.event.event_type = "CREATED"
    /\ \A b \in 1 .. Len(emitted) : \A i, j \in 1 .. Len(emitted[b]) :
          (CreatedThenModified(emitted[b][i].folded)
              /\ emitted[b][j].event.path = emitted[b][i].event.path) => i = j

\* C17 witness: the callback received a batch whose only event is CREATED and was
\* built from a CREATED and two MODIFIED events
C17_Witness ==
    \E b \in 1 .. Len(emitted) :
        /\ Len(emitted[b]) = 1
        /\ TypesOf(emitted[b][1].folded) = <<"CREATED", "MODIFIED", "MODIFIED">>
        /\ emitted[b][1].event.event_type = "CREATED"

\* the merge rule for the type: DELETED and MOVED always win, a MODIFIED leaves a
\* CREATED as it is, otherwise the new type replaces the old one
C18_Rule(existing_type, new_type) ==
    IF new_type \in {"DELETED", "MOVED"} THEN new_type
    ELSE IF existing_type = "CREATED" /\ new_type = "MODIFIED" THEN "CREATED"
    ELSE new_type

RECURSIVE C18_Fold(_, _)
\* the left fold of the rule over the first n types
C18_Fold(types, n) ==
    IF n = 1 THEN types[1] ELSE C18_Rule(C18_Fold(types, n - 1), types[n])

\* C18: the type of a pending or emitted event is the left fold of the merge rule
\* over the types of the events merged into it, in arrival order; in particular it is
\* DELETED when the last one merged is a DELETED and MOVED when it is a MOVED,
\* whatever was pending.
C18_TypeIsLeftFold ==
    \A x \in Accounted :
        LET types == TypesOf(x.folded) IN
        /\ x.event.event_type = C18_Fold(types, Len(types))
        /\ (Len(types) >= 2 /\ types[Len(types)] \in {"DELETED", "MOVED"})
              => x.event.event_type = types[Len(types)]

\* C18 witness: the callback received a MOVED event built from a CREATED, a DELETED
\* and a MOVED event
C18_Witness ==
    \E x \in Delivered :
        /\ TypesOf(x.folded) = <<"CREATED", "DELETED", "MOVED">>
        /\ x.event.event_type = "MOVED"

\* a flush_due call has just been made: the clock and the number of added events
\* are as before
FlushStep == lastCall'.op = "flush_due" /\ now' = now /\ added' = added

\* C19: an unforced flush_due removes from the pending events exactly those last
\* touched at least flush_interval ago and a forced one removes them all; what is
\* removed is passed to the callback in one call, in one list, and the callback is
\* not called when nothing is removed; the other pending events stay as they are.
C19_FlushEmitsExactlyTheDue ==
    [][FlushStep =>
          LET Due(i) == lastCall'.force
                           \/ now - pending[i].last_seen >= config.flush_interval
              due == {i \in 1 .. Len(pending) : Due(i)}
              rest == {i \in 1 .. Len(pending) : ~Due(i)}
          IN /\ Len(pending') = Cardinality(rest)
             /\ \A i \in rest : \E j \in 1 .. Len(pending') : pending'[j] = pending[i]
             /\ IF due = {}
                THEN emitted' = emitted
                ELSE /\ Len(emitted') = Len(emitted) + 1
                     /\ SubSeq(emitted', 1, Len(emitted)) = emitted
                     /\ Len(emitted'[Len(emitted')]) = Cardinality(due)
                     /\ \A i \in due : \E j \in 1 .. Cardinality(due) :
                           emitted'[Len(emitted')][j].event = pending[i].event]_vars

\* C19 witness: an unforced flush_due has just passed at least one event to the
\* callback and left another one pending
C19_Witness ==
    /\ lastCall.op = "flush_due"
    /\ ~lastCall.force
    /\ lastCall.ready >= 1
    /\ pending # <<>>
    /\ emitted # <<>>

\* an add has just merged its event into the pending event of its path
MergeStep ==
    /\ added' = added + 1
    /\ IndexOf(pending, lastCall'.event.path) # 0
    /\ now - pending[IndexOf(pending, lastCall'.event.path)].last_seen
          <= config.debounce_interval

\* C20: the event a merge leaves pending has the old metadata overlaid with the new
\* keys, and the destination path (None included), the directory flag and the
\* timestamp of the newer event.
C20_MergedFieldsTakeNewest ==
    [][MergeStep =>
          LET new == lastCall'.event
              i == IndexOf(pending, new.path)
              old == pending[i].event
              merged == pending'[i].event
          IN /\ DOMAIN merged.metadata = DOMAIN old.metadata \cup DOMAIN new.metadata
             /\ \A k \in DOMAIN new.metadata : merged.metadata[k] = new.metadata[k]
             /\ \A k \in DOMAIN old.metadata \ DOMAIN new.metadata :
                   merged.metadata[k] = old.metadata[k]
             /\ merged.dest_path = new.dest_path
             /\ merged.is_directory = new.is_directory
             /\ merged.timestamp = new.timestamp]_vars

\* the callback was called in this step and raised
CallbackRaised ==
    /\ Len(outcomes') = Len(outcomes) + 1
    /\ outcomes'[Len(outcomes')].raised

\* the worker takes an event that is not blacklisted from the queue in this step
TakesEvent ==
    /\ worker = "get"
    /\ queue # <<>>
    /\ queue' = Tail(queue)
    /\ Head(queue) # Sentinel
    /\ ~IsBlacklisted(Head(queue).event.path, config.blacklist_patterns)

\* C21: an exception raised by the batch callback is caught: the worker thread goes
\* on from the flush as it does when the callback returns (back to the test of its
\* loop, or to its normal end after the forced flush), and once the callback has
\* raised the worker still takes the published events into the pending events or
\* into a batch passed to the callback.
C21_CallbackExceptionIsCaught ==
    [][/\ CallbackRaised => worker' = (IF worker = "final" THEN "ended" ELSE "check")
       /\ (TakesEvent /\ \E b \in 1 .. Len(outcomes) : outcomes[b].raised) =>
              \E x \in Accounted' : Head(queue).id \in IdsOf(x.folded)]_vars

\* the callback raised on a batch, and a later batch holds an event that was
\* published after that
C21_Witness ==
    \E b \in 1 .. Len(outcomes) : \E later \in (b + 1) .. Len(emitted) :
        /\ outcomes[b].raised
        /\ \E i \in 1 .. Len(emitted[later]) :
              \E id \in IdsOf(emitted[later][i].folded) : id > outcomes[b].published

\* C22: stop() halts the backend, then the pending events are force-flushed, then the
\* worker is joined: the forced flush of the worker is made only once the backend was
\* halted, and when stop() has returned the worker thread has terminated.
C22_StopHaltsFlushesJoins ==
    /\ worker = "ended" => backend = "halted"
    /\ caller = "stopped" => worker \in {"ended", "crashed"}

\* the path matches a blacklist pattern, by its base name or as a whole
MatchesBlacklist(path) ==
    \E pattern \in config.blacklist_patterns :
        FnMatch(PathName(path), pattern) \/ FnMatch(PathStr(path), pattern)

\* the worker takes an event from the queue in this step
TakesItem ==
    /\ worker = "get"
    /\ queue # <<>>
    /\ queue' = Tail(queue)
    /\ Head(queue) # Sentinel

ContainsWhitelistEntry ==
    \E entry \in sysfilter.whitelist_arg : Contains(StrOf(lastDecision.candidate.path), entry)

\* C24: whitelist always wins: for every candidate whose path contains a whitelist
\* entry, evaluate returns should_skip = false with the single flag whitelisted and
\* no reason, whatever other rules the candidate matches.
C24_WhitelistAlwaysWins ==
    (lastDecision # NoDecision /\ ContainsWhitelistEntry) =>
        /\ lastDecision.should_skip = FALSE
        /\ lastDecision.flags = {"whitelisted"}
        /\ lastDecision.reason = NoReason

\* a whitelisted candidate that is a hidden system file with a sensitive, temporary
\* name was evaluated by a filter that skips hidden and sensitive files
C24_Witness ==
    /\ lastDecision # NoDecision
    /\ ContainsWhitelistEntry
    /\ sysfilter.skip_hidden
    /\ sysfilter.sensitive_action = "skip"
    /\ IsHidden(lastDecision.candidate.path)
    /\ IsSystemFile(lastDecision.candidate.path)
    /\ IsTemporary(lastDecision.candidate.path)
    /\ ContainsSensitiveKeyword(sysfilter, lastDecision.candidate.path)
    /\ lastDecision.flags = {"whitelisted"}

\* the rules in the order of the claim, for the evaluated candidate: whether the rule
\* matches, whether a match triggers a skip, its reason token and its flag
C25_Rules ==
    LET path == lastDecision.candidate.path
        size == lastDecision.candidate.size
    IN <<[matches |-> IsCloudPlaceholder(path, size), skips |-> TRUE,
          token |-> "cloud_placeholder", flag |-> "cloud-placeholder"],
         [matches |-> sysfilter.skip_hidden /\ IsHidden(path), skips |-> TRUE,
          token |-> "hidden", flag |-> "hidden"],
         [matches |-> IsSystemFile(path), skips |-> TRUE,
          token |-> "system", flag |-> "system"],
         [matches |-> IsDeveloperPath(path), skips |-> TRUE,
          token |-> "developer", flag |-> "developer"],
         [matches |-> IsTemporary(path), skips |-> TRUE,
          token |-> "temporary", flag |-> "temporary"],
         [matches |-> IsNameTooLong(sysfilter, path), skips |-> TRUE,
          token |-> "name_too_long", flag |-> "long-name"],
         [matches |-> sysfilter.skip_empty /\ size = 0, skips |-> TRUE,
          token |-> "empty_file", flag |-> "empty"],
         [matches |-> ContainsSensitiveKeyword(sysfilter, path),
          skips |-> sysfilter.sensitive_action = "skip",
          token |-> "sensitive_keyword", flag |-> "sensitive"]>>

\* C25: for a non-whitelisted candidate, evaluate records the flag of every rule that
\* matches and of no other rule, sets reason to the token of the first rule, in the
\* order cloud-placeholder, hidden, system, developer, temporary, name-too-long,
\* empty, sensitive, that matched and triggered a skip (to None when there is none),
\* and should_skip is true exactly when at least one such rule triggered a skip.
C25_FlagsAllReasonFirst ==
    (lastDecision # NoDecision /\ ~IsWhitelisted(sysfilter, lastDecision.candidate.path)) =>
        LET rules == C25_Rules
            Skipping == {k \in 1 .. Len(rules) : rules[k].matches /\ rules[k].skips}
        IN /\ lastDecision.flags = {rules[k].flag : k \in {j \in 1 .. Len(rules) : rules[j].matches}}
           /\ lastDecision.should_skip = (Skipping # {})
           /\ lastDecision.reason =
                  IF Skipping = {} THEN NoReason
                  ELSE rules[CHOOSE k \in Skipping : \A j \in Skipping : k <= j].token

\* a candidate that is not whitelisted matched the hidden, the temporary and the
\* sensitive rule of a filter that only flags sensitive names: three flags, and the
\* reason of the first
C25_Witness ==
    /\ lastDecision # NoDecision
    /\ ~IsWhitelisted(sysfilter, lastDecision.candidate.path)
    /\ sysfilter.sensitive_action = "flag"
    /\ lastDecision.flags = {"hidden", "temporary", "sensitive"}
    /\ lastDecision.reason = "hidden"
    /\ lastDecision.should_skip

\* the name holds a sensitive keyword and no other rule of the filter matches
OnlySensitive(self, candidate) ==
    /\ ContainsSensitiveKeyword(self, candidate.path)
    /\ \A k \in 1 .. Len(Checks(self, candidate)) : ~Checks(self, candidate)[k].condition

\* C26: with a default-constructed SystemFilter, filter_candidates does not drop a
\* file merely because its name contains a sensitive keyword: the candidate is
\* yielded and carries the tag sensitive, while the yielded candidates without such
\* a keyword carry no sensitive tag.
C26_SensitiveIsTaggedNotDropped ==
    (filtered.called /\ sysfilter = DefaultFilter) =>
        /\ \A k \in 1 .. Len(filtered.input) :
              OnlySensitive(sysfilter, filtered.input[k]) =>
                  \E j \in 1 .. Len(filtered.output) :
                      /\ filtered.output[j].path = filtered.input[k].path
                      /\ "sensitive" \in filtered.output[j].tags
        /\ \A j \in 1 .. Len(filtered.output) :
              ~ContainsSensitiveKeyword(sysfilter, filtered.output[j].path) =>
                  "sensitive" \notin filtered.output[j].tags

\* C27: classification is cache-transparent: after any sequence of earlier classify
\* calls of an engine, evictions included, classify returns for a candidate the
\* category, confidence and rationale that an engine with the same rules and an
\* empty cache returns.
C27_CacheTransparent ==
    lastResult # NoResult =>
        lastResult.result = Classify(engine, <<>>, lastResult.candidate).result

\* the last classify took its category from the cache, after the cache had dropped
\* an entry
C27_Witness ==
    /\ lastResult.hit
    /\ evicted
    /\ Len(extension_cache) = CacheLimit
    /\ lastResult.result.rationale[1] = "extension"

\* the weight of each family, as the claim gives them
C28_Weights == [extension |-> 100, keyword |-> 80, magic |-> 70, mime |-> 60, size |-> 50]

\* the match of each family for the classified candidate, NoMatch when it has none
C28_Matches ==
    [extension |-> ClassifyByExtension(engine.rules, <<>>, lastResult.candidate).decision,
     keyword |-> ClassifyByKeyword(engine.rules, lastResult.candidate, engine.seed),
     magic |-> ClassifyByMagic(engine.rules, lastResult.candidate),
     mime |-> ClassifyByMime(engine.rules, lastResult.candidate),
     size |-> ClassifyBySize(engine.rules, lastResult.candidate)]

\* C28: classify returns the match of the highest-weight family among those that
\* match (extension 100, keyword 80, magic 70, mime 60, size 50), with confidence
\* min(weight/100, 1.0) and rationale "<family>:<token>"; when no family matches it
\* returns the default category with confidence 0.0 and rationale no-match.
C28_HighestWeightFamilyWins ==
    lastResult # NoResult =>
        LET matching == {f \in DOMAIN C28_Weights : C28_Matches[f] # NoMatch}
            top == CHOOSE f \in matching : \A g \in matching : C28_Weights[f] >= C28_Weights[g]
        IN IF matching = {}
           THEN lastResult.result =
                    ClassificationResult(engine.default_category, 0, <<"no-match">>)
           ELSE /\ lastResult.result.category = C28_Matches[top].category
                /\ lastResult.result.confidence =
                       (IF C28_Weights[top] < 100 THEN C28_Weights[top] ELSE 100)
                /\ lastResult.result.rationale = <<top, C28_Matches[top].rationale>>

\* the size, the mime and the magic family all matched the classified candidate and
\* the result is the match of the magic family, with confidence 0.7
C28_Witness ==
    /\ lastResult # NoResult
    /\ C28_Matches.size # NoMatch
    /\ C28_Matches.mime # NoMatch
    /\ C28_Matches.magic # NoMatch
    /\ lastResult.result.rationale[1] = "magic"
    /\ lastResult.result.confidence = 70

\* an entry whose backup file is absent or does not have the recorded digest
BadBackup(f, entry) ==
    \/ entry.backup_path \notin DOMAIN f
    \/ Sha256(f[entry.backup_path]) # entry.sha256

RestoreReturns == pc = "start" /\ pc' \in {"rollback_done", "dry_run_done"}

\* C29: restore never restores from a missing or corrupted backup: an entry whose
\* backup file is absent or whose SHA-256 differs from the recorded digest is left
\* out of the returned list, its backup file stays as it was and nothing is written
\* at its original path, while every other entry of the batch is still processed
\* and returned.
C29_BadBackupIsSkipped ==
    [][RestoreReturns =>
          \A k \in 1 .. Len(rollbackFile.val) :
              LET entry == rollbackFile.val[k] IN
              IF BadBackup(fs, entry)
              THEN /\ \A j \in 1 .. Len(restored') : restored'[j] # entry.original_path
                   /\ (entry.backup_path \in DOMAIN fs) = (entry.backup_path \in DOMAIN fs')
                   /\ entry.backup_path \in DOMAIN fs =>
                          fs'[entry.backup_path] = fs[entry.backup_path]
                   /\ entry.original_path \notin DOMAIN fs'
              ELSE \E j \in 1 .. Len(restored') : restored'[j] = entry.original_path]_vars

\* a real restore skipped a corrupted first entry and restored the second one
C29_Witness ==
    /\ pc = "rollback_done"
    /\ Len(rollbackFile.val) = 2
    /\ rollbackFile.val[1].backup_path \in DOMAIN fs
    /\ BadBackup(fs, rollbackFile.val[1])
    /\ rollbackFile.val[1].original_path \notin DOMAIN fs
    /\ restored = <<rollbackFile.val[2].original_path>>
    /\ rollbackFile.val[2].original_path \in DOMAIN fs

\* C30: restore with dry_run = true only reports: it returns the list of paths a
\* real restore would return from the same state, moves no backup and creates no
\* file and no directory.
C30_DryRunOnlyReports ==
    [][(pc = "start" /\ pc' = "dry_run_done") =>
          /\ restored' = Restore(fs, dirs, LoadEntries(rollbackFile).entries, FALSE).restored
          /\ fs' = fs
          /\ dirs' = dirs]_vars

\* the part of C30 about the list and the files alone
DryRunKeepsFiles ==
    [][(pc = "start" /\ pc' = "dry_run_done") =>
          /\ restored' = Restore(fs, dirs, LoadEntries(rollbackFile).entries, FALSE).restored
          /\ fs' = fs]_vars

\* the fields of a plan item that a replay must reproduce
ItemView(item) ==
    [source |-> item.source, destination |-> item.destination,
     operation |-> item.operation, conflict |-> item.conflict, category |-> item.category]

SamePlan(first, second) ==
    /\ Len(first.items) = Len(second.items)
    /\ \A k \in 1 .. Len(first.items) : ItemView(first.items[k]) = ItemView(second.items[k])
    /\ first.classified = second.classified
    /\ first.skipped = second.skipped
    /\ first.summary = second.summary

\* C31: build_plan is a pure dry run: it changes no file and no directory, and a
\* second call with the same sources, destination root and filesystem state yields
\* a plan with the same items (source, destination, operation, conflict, category),
\* the same skipped list and the same summary as the first.
C31_BuildPlanIsRepeatable ==
    [][/\ (pc = "start" /\ pc' = "planned") => (fs' = fs /\ dirs' = dirs)
       /\ (pc = "planned" /\ pc' = "replanned") =>
              /\ fs' = fs
              /\ dirs' = dirs
              /\ SamePlan(plan, replan')]_vars

\* the second plan was built from a warm extension cache, with an item that met an
\* occupied destination and a candidate the filter skipped
C31_Witness ==
    /\ pc = "replanned"
    /\ extension_cache # <<>>
    /\ \E k \in 1 .. Len(replan.items) : replan.items[k].conflict
    /\ \E k \in 1 .. Len(replan.skipped) : replan.skipped[k].reason = "empty_file"
    /\ \E k \in 1 .. Len(replan.classified) : replan.classified[k].category = "documents"

\* the events a step appended to the watcher's queue, by path and type
NewlyPublished(path, event_type) ==
    {k \in (Len(queue) + 1) .. Len(queue') :
        queue'[k].event.path = path /\ queue'[k].event.event_type = event_type}

\* the event type a poll owes a path: none when the path is unchanged
OwedEvent(path) ==
    IF path \in DOMAIN watched /\ path \notin DOMAIN snapshot THEN "CREATED"
    ELSE IF path \notin DOMAIN watched /\ path \in DOMAIN snapshot THEN "DELETED"
    ELSE IF path \in DOMAIN watched /\ path \in DOMAIN snapshot
            /\ snapshot[path] # <<watched[path].st_mtime, watched[path].st_size>>
    THEN "MODIFIED"
    ELSE "none"

\* C32: each poll of the polling backend publishes exactly one CREATED event per
\* path present now but not in the previous snapshot, one DELETED per path present
\* before but not now, one MODIFIED per path present in both whose (mtime, size)
\* changed, and nothing for an unchanged path; afterwards the stored snapshot is
\* the current one, so that the next poll reports the change no more.
C32_PollReportsEachChangeOnce ==
    [][polls' = polls + 1 =>
          /\ Len(queue') >= Len(queue)
          /\ SubSeq(queue', 1, Len(queue)) = queue
          /\ \A path \in WatchedFiles, event_type \in {"CREATED", "DELETED", "MODIFIED", "MOVED"} :
                Cardinality(NewlyPublished(path, event_type)) =
                    IF OwedEvent(path) = event_type THEN 1 ELSE 0
          /\ DOMAIN snapshot' = DOMAIN watched
          /\ \A path \in DOMAIN watched :
                snapshot'[path] = <<watched[path].st_mtime, watched[path].st_size>>]_vars

\* two polls ran: the first published a DELETED and a MODIFIED event for the two
\* changes made before it, the second found nothing new
C32_Witness ==
    /\ polls = 2
    /\ changes = 2
    /\ Len(queue) = 2
    /\ {queue[1].event.event_type, queue[2].event.event_type} = {"DELETED", "MODIFIED"}
    /\ snapshot = BuildSnapshot(watched)

\* an event of this path is pending, no event of the path waits in the queue, none
\* can be published any more, and the clock can still reach the time it is due
QuietlyPending(path) ==
    /\ added = MaxPublished
    /\ \A k \in 1 .. Len(queue) : queue[k].event.path # path
    /\ \E i \in 1 .. Len(pending) :
          /\ pending[i].event.path = path
          /\ pending[i].last_seen + config.flush_interval <= MaxTime

StillPending(path) == \E i \in 1 .. Len(pending) : pending[i].event.path = path

\* C33: while the watcher is running, a pending event is eventually emitted once no
\* further event arrives for its path: the worker wakes up within a bounded time
\* and runs flush_due on every wake-up.
C33_PendingIsEventuallyEmitted ==
    \A path \in {File1, File2} : QuietlyPending(path) ~> ~StillPending(path)

\* C34: the watcher is restartable: after any sequence of start() and stop() calls
\* that ends with start(), stop() before the first start() included, the worker
\* thread is alive and stays in its loop; no shutdown sentinel left in the queue
\* ends the new worker.
C34_WorkerAliveAfterStart ==
    caller = "started" => worker \in {"check", "get"}

\* C35: under any interleaving of start() and stop() calls there is at most one
\* live worker thread and at most one started backend per watcher.
C35_AtMostOneBackend ==
    orphans + (IF backend = "running" THEN 1 ELSE 0) <= 1

OnePerPath(entries) ==
    \A i, j \in 1 .. Len(entries) :
        i # j => entries[i].event.path # entries[j].event.path

\* C36: after any sequence of add, flush_due and clear calls, the pending map holds
\* at most one event per path, every emitted batch holds at most one event per
\* path, and what was emitted is in the pending map no more, so that no event is
\* emitted in two batches or twice in one.
C36_OnePerPathEmittedOnce ==
    /\ OnePerPath(pending)
    /\ \A b \in 1 .. Len(emitted) : OnePerPath(emitted[b])
    /\ \A b \in 1 .. Len(emitted) : \A e \in 1 .. Len(emitted[b]) :
          /\ \A i \in 1 .. Len(pending) :
                IdsOf(emitted[b][e].folded) \cap IdsOf(pending[i].folded) = {}
          /\ \A c \in 1 .. Len(emitted) : \A f \in 1 .. Len(emitted[c]) :
                (c # b \/ f # e) => IdsOf(emitted[b][e].folded) \cap IdsOf(emitted[c][f].folded) = {}

\* two batches were emitted with an event of the same path in each, and a clear
\* then dropped the event that was pending
C36_Witness ==
    /\ lastCall.op = "clear"
    /\ pending = <<>>
    /\ added = MaxEvents
    /\ Len(emitted) = 2
    /\ \E e \in 1 .. Len(emitted[1]), f \in 1 .. Len(emitted[2]) :
          emitted[1][e].event.path = emitted[2][f].event.path

\* ---------------------------------------------------------------------------
\* mover.FileMover: the mover with a DuplicateStrategy
\* ---------------------------------------------------------------------------

\* _generate_unique_name: the bound of "counter < 1000"
CounterLimit == 1000

\* the names _generate_unique_name can try for one file_name, by the number
\* they carry: 0 is file_name itself, k is f"{stem}_{k}{suffix}".  Names with
\* different numbers are different strings.
VariantNames == 0 .. (CounterLimit - 1)

DuplicateStrategies == {"rename", "skip", "overwrite"}

\* the files that are moved in, by their content
Incoming == {"alpha", "beta", "gamma"}

\* a destination directory that already holds the names of taken
Holding(taken) == [name \in VariantNames |-> IF name \in taken THEN "old" ELSE "absent"]

\* the destination directories the moves start from: empty, the name taken,
\* some numbered names taken as well, with and without a free number
Listings ==
    { Holding({}), Holding({0}), Holding({0, 1}), Holding({0, 2}),
      Holding(0 .. (CounterLimit - 2)),
      Holding(VariantNames \ {CounterLimit \div 2}),
      Holding(VariantNames) }

NoMove == [strategy |-> "none", file |-> "none", returned |-> "None", target |-> 0,
           before |-> <<>>, waiting |-> {}]

\* _generate_unique_name: when the loop test is evaluated with counter = c the
\* candidate is the name c - 1 (file_name itself for c = 1, as set before the
\* loop, and the name the body made with counter = c - 1 afterwards).  The loop
\* returns the candidate of the first test that fails: the candidate does not
\* exist, or counter has reached CounterLimit.
GenerateUniqueName(dir) ==
    LET fails == {counter \in 1 .. CounterLimit :
                    ~(dir[counter - 1] # "absent" /\ counter < CounterLimit)}
        last == CHOOSE counter \in fails : \A other \in fails : counter <= other
    IN last - 1

\* FileMover.move: the path it moves to, or "None"
MoveTarget(strategy, dir) ==
    IF dir[0] # "absent"
    THEN CASE strategy = "skip" -> [returned |-> "None", target |-> 0]
           [] strategy = "rename" -> [returned |-> "path", target |-> GenerateUniqueName(dir)]
           [] OTHER -> [returned |-> "path", target |-> 0]
    ELSE [returned |-> "path", target |-> 0]

DuplicateInit ==
    /\ MoverAtRest
    /\ WatcherAtRest
    /\ FilterAtRest
    /\ ClassifierAtRest
    /\ PlannerAtRest
    /\ BackendAtRest
    /\ listing \in Listings
    /\ inbox = Incoming
    /\ lastMove = NoMove

\* FileMover(strategy).move(file_info, destination) with file_info.file_name
\* the name 0 and file_info.file_path a file of the inbox; shutil.move puts
\* the file at the target, over what is there
FileMoverMove ==
    \E strategy \in DuplicateStrategies, file \in inbox :
      \E m \in {MoveTarget(strategy, listing)} :
        /\ lastMove' = [strategy |-> strategy, file |-> file, returned |-> m.returned,
                        target |-> m.target, before |-> listing, waiting |-> inbox]
        /\ IF m.returned = "None"
           THEN UNCHANGED <<listing, inbox>>
           ELSE /\ listing' = [listing EXCEPT ![m.target] = file]
                /\ inbox' = inbox \ {file}
        /\ UNCHANGED <<moverVars, watcherVars, filterVars, classifierVars, plannerVars, backendVars>>

DuplicateNext == FileMoverMove

DuplicateSpec == DuplicateInit /\ [][DuplicateNext]_vars

\* C37: when the name is taken, a move with RENAME returns a path that did not
\* exist before the move, and a move with SKIP returns None and leaves the
\* source and the destination directory as they were
C37_RenameNeverOverwrites ==
    (lastMove.strategy # "none" /\ lastMove.before[0] # "absent") =>
        /\ lastMove.strategy = "rename" =>
              /\ lastMove.returned = "path"
              /\ lastMove.before[lastMove.target] = "absent"
        /\ lastMove.strategy = "skip" =>
              /\ lastMove.returned = "None"
              /\ listing = lastMove.before
              /\ inbox = lastMove.waiting

====
